---- MODULE Spec2Model ----
(***************************************************************************)
(* Storage-layer core of the cmu15-445 database: the extendible hash table *)
(* used as page table, the LRU replacer, the buffer pool manager and the   *)
(* B+ tree index with its leaf and internal pages.                         *)
(*                                                                         *)
(* Pointers are modelled as indices: a Page* is the index (1..PoolSize) of *)
(* the frame in pages_, nullptr is 0; a shared_ptr<Bucket> is the index of *)
(* the bucket in an arena (heap) of buckets.                               *)
(***************************************************************************)
EXTENDS Integers, Sequences, FiniteSets, TLC

(* ----------------------------- bounds --------------------------------- *)
\* number of frames of the pool (pool_size_)
PoolSize == 1
\* number of page ids the disk manager can hand out
MaxPages == 2
\* largest number of pins the callers keep outstanding on one page
MaxPin == 2
\* page contents are one value in 0..MaxData (0 is the zeroed page)
MaxData == 1
\* capacity of one bucket of the page table
BUCKET_SIZE == 1
\* deepest nesting of ExtendibleHash::Insert calls that is followed
MaxRecursion == 6
\* number of calls in one run of the pool
MaxCalls == 9
\* number of calls in one run of the pool that follows the history of FlushPage
MaxFlushCalls == 8
\* the values put in a replacer run on its own are 1..MaxValue
MaxValue == 3
\* number of calls in one run of the replacer
MaxLRUCalls == 6
\* the keys put in a hash table run on its own are 0..MaxKey
MaxKey == 5
\* and the values 1..MaxHashValue
MaxHashValue == 2
\* a hash table run on its own has buckets of 1..MaxHashSize slots
MaxHashSize == 2
\* number of calls in one run of the hash table
MaxHashCalls == 4
\* number of calls the threads make in one run of the hash table
MaxHashThreadCalls == 4
\* largest max_size_ of a leaf page, and of an internal page, of a tree
MaxLeafSize == 3
MaxInternalSize == 4
\* number of page ids the disk manager hands out to a tree
MaxTreePages == 11
\* the keys put in a tree are 0..MaxTreeKey, the values 1..MaxTreeValue
MaxTreeKey == 5
MaxTreeValue == 2
\* number of calls in one run of the tree
MaxTreeCalls == 4
\* number of calls in one run of the tree with an iterator
MaxTreeIterCalls == 6
\* number of calls and evictions in one run of the tree on a busy pool
MaxTreeEvictCalls == 4
\* number of calls in one run of the tree used as a map
MaxTreeMapCalls == 8
\* calls of a run on the tree of three levels
MaxTreeDeepCalls == 7
\* number of threads that call the pool, or the hash table
NumThreads == 2
\* number of calls the threads make in one run
MaxThreadCalls == 6

(* ---------------------------- constants ------------------------------- *)
INVALID_PAGE_ID == -1
nullptr == 0
HEADER_PAGE_ID == 0

Frames == 1..PoolSize
PageIds == 0..(MaxPages - 1)
Data == 0..MaxData

(* ------------------------- sequence helpers --------------------------- *)
\* least element of a non-empty set of integers
MinOf(S) == CHOOSE x \in S : \A y \in S : x <= y

\* the elements of a finite set of integers in increasing order
RECURSIVE SortedSeq(_)
SortedSeq(S) ==
  IF S = {} THEN <<>> ELSE <<MinOf(S)>> \o SortedSeq(S \ {MinOf(S)})

\* least element of S, 0 when S is empty (indices start at 1)
FirstOf(S) == IF S = {} THEN 0 ELSE MinOf(S)

\* s without its i-th element
RemoveAt(s, i) == SubSeq(s, 1, i - 1) \o SubSeq(s, i + 1, Len(s))

Range(s) == {s[i] : i \in 1..Len(s)}

(* ------------------------------ Bucket -------------------------------- *)
\* Bucket::Bucket: items_ are value-initialised pairs, exists_ all false
Bucket(size, local_depth) ==
  [local_depth |-> local_depth,
   size        |-> 0,
   capacity    |-> size,
   items       |-> [i \in 1..size |-> [first |-> 0, second |-> nullptr]],
   exists      |-> [i \in 1..size |-> FALSE]]

Bucket_Full(b) == b.size = b.capacity

\* the first slot that is not in use receives the pair; no slot: nothing happens
Bucket_Insert(b, key, value) ==
  LET i == FirstOf({j \in 1..b.capacity : ~b.exists[j]}) IN
  IF i = 0 THEN b
  ELSE [b EXCEPT !.exists[i] = TRUE,
                 !.size = @ + 1,
                 !.items[i] = [first |-> key, second |-> value]]

\* [found, value]: the first slot in use that holds key
Bucket_Find(b, key) ==
  LET i == FirstOf({j \in 1..b.capacity : b.exists[j] /\ b.items[j].first = key}) IN
  IF i = 0 THEN [found |-> FALSE, value |-> nullptr]
  ELSE [found |-> TRUE, value |-> b.items[i].second]

\* [bucket, ret]: the scan compares items_[i].first without looking at exists_[i];
\* size_ is a size_t, kept as the residue that == compares (0 - 1 is -1)
Bucket_Remove(b, key) ==
  LET i == FirstOf({j \in 1..Len(b.items) : b.items[j].first = key}) IN
  IF i = 0 THEN [bucket |-> b, ret |-> FALSE]
  ELSE [bucket |-> [b EXCEPT !.size = @ - 1, !.exists[i] = FALSE], ret |-> TRUE]

Bucket_GetItems(b) ==
  LET idx == SortedSeq({j \in 1..b.capacity : b.exists[j]})
  IN [n \in 1..Len(idx) |-> b.items[idx[n]]]

Bucket_Clear(b) ==
  [b EXCEPT !.size = 0, !.exists = [i \in 1..b.capacity |-> FALSE]]

Bucket_IncLocalDepth(b) == [b EXCEPT !.local_depth = @ + 1]

(* -------------------------- ExtendibleHash ---------------------------- *)
\* ExtendibleHash::ExtendibleHash: one bucket of local depth 0, global depth 0.
\* buckets_table[i + 1] is directory slot i; heap holds the buckets.
\* overflow records that an Insert nested deeper than MaxRecursion.
ExtendibleHash(size) ==
  [buckets_table   |-> <<1>>,
   heap            |-> <<Bucket(size, 0)>>,
   global_depth    |-> 0,
   num_buckets     |-> 1,
   bucket_capacity |-> size,
   overflow        |-> FALSE]

\* std::hash of an integer is the integer itself
HashKey(h, key) == key % Len(h.buckets_table)

EntryAt(h, index) == h.heap[h.buckets_table[index + 1]]

Hash_Find(h, key) == Bucket_Find(EntryAt(h, HashKey(h, key)), key)

\* [hash, ret]
Hash_Remove(h, key) ==
  LET bi == h.buckets_table[HashKey(h, key) + 1]
      r  == Bucket_Remove(h.heap[bi], key)
  IN [hash |-> [h EXCEPT !.heap[bi] = r.bucket], ret |-> r.ret]

\* the doubling that leaves global_depth_ as it is
Hash_Grow_NoDepth(h, index) ==
  IF EntryAt(h, index).local_depth = h.global_depth
  THEN [h EXCEPT !.buckets_table = h.buckets_table \o h.buckets_table]
  ELSE h

\* the doubling that does not look at the local depth
Hash_Grow_Always(h, index) ==
  [h EXCEPT !.global_depth = @ + 1,
            !.buckets_table = h.buckets_table \o h.buckets_table]

\* lines 180-189: the directory is doubled when the local depth of the bucket at
\* slot index equals the global depth
Hash_Grow(h, index) ==
  IF EntryAt(h, index).local_depth = h.global_depth
  THEN [h EXCEPT !.global_depth = @ + 1,
                 !.buckets_table = h.buckets_table \o h.buckets_table]
  ELSE h

\* lines 190-205: the local depth of the bucket at slot index goes up by one,
\* the bucket is emptied and the upper half of the slots that reference it are
\* pointed to a new bucket of the same local depth
Hash_Reassign(h, index) ==
  LET bi0 == h.buckets_table[index + 1]
      h2  == [h EXCEPT !.heap[bi0] = Bucket_IncLocalDepth(@)]
      indexes == SortedSeq({s \in 1..Len(h2.buckets_table) : h2.buckets_table[s] = bi0})
      h3  == [h2 EXCEPT !.heap[bi0] = Bucket_Clear(@)]
      new_bucket == Len(h3.heap) + 1
      upper == {indexes[i] : i \in ((Len(indexes) \div 2) + 1)..Len(indexes)}
  IN [h3 EXCEPT
        !.heap = Append(@, Bucket(h.bucket_capacity, h3.heap[bi0].local_depth)),
        !.num_buckets = @ + 1,
        !.buckets_table = [s \in 1..Len(h3.buckets_table) |->
                             IF s \in upper THEN new_bucket ELSE h3.buckets_table[s]]]

\* the directory after the split of the bucket at slot index
Hash_Split(h, index) == Hash_Reassign(Hash_Grow(h, index), index)

RECURSIVE Hash_InsertRec(_, _, _, _)
RECURSIVE Hash_InsertAll(_, _, _)
\* ExtendibleHash::Insert, fuel nested calls deep at most
Hash_InsertRec(h, key, value, fuel) ==
  IF h.overflow THEN h
  ELSE IF fuel = 0 THEN [h EXCEPT !.overflow = TRUE]
  ELSE
    LET index == HashKey(h, key)
        bi    == h.buckets_table[index + 1]
    IN IF Bucket_Full(h.heap[bi])
       THEN LET items == Bucket_GetItems(h.heap[bi])
                h4    == Hash_Split(h, index)
                h5    == Hash_InsertAll(h4, items, fuel - 1)
            IN Hash_InsertRec(h5, key, value, fuel - 1)
       ELSE [h EXCEPT !.heap[bi] = Bucket_Insert(@, key, value)]

\* the loop that re-inserts the items of a split bucket
Hash_InsertAll(h, items, fuel) ==
  IF items = <<>> THEN h
  ELSE Hash_InsertAll(Hash_InsertRec(h, items[1].first, items[1].second, fuel),
                      Tail(items), fuel)

Hash_Insert(h, key, value) == Hash_InsertRec(h, key, value, MaxRecursion)

(* ---------------------------- LRUReplacer ----------------------------- *)
\* list_ is a sequence, head first

\* Insert that appends without looking for the value
LRU_Insert_NoErase(list, value) == Append(list, value)

LRU_Insert(list, value) ==
  LET i == FirstOf({j \in 1..Len(list) : list[j] = value}) IN
  Append(IF i # 0 THEN RemoveAt(list, i) ELSE list, value)

\* Victim that pops the tail
LRU_Victim_Back(list) ==
  IF list = <<>> THEN [list |-> list, ret |-> FALSE, value |-> nullptr]
  ELSE [list |-> SubSeq(list, 1, Len(list) - 1), ret |-> TRUE, value |-> list[Len(list)]]

\* [list, ret, value]
LRU_Victim(list) ==
  IF list = <<>> THEN [list |-> list, ret |-> FALSE, value |-> nullptr]
  ELSE [list |-> Tail(list), ret |-> TRUE, value |-> Head(list)]

\* [list, ret]
LRU_Erase(list, value) ==
  LET i == FirstOf({j \in 1..Len(list) : list[j] = value}) IN
  IF i = 0 THEN [list |-> list, ret |-> FALSE]
  ELSE [list |-> RemoveAt(list, i), ret |-> TRUE]

LRU_Size(list) == Len(list)

(* ---------------------------- DiskManager ----------------------------- *)
\* the disk is a function from page id to page contents; a page never written
\* reads as zeroes

ReadPage(disk, page_id) == disk[page_id]

WritePage(disk, page_id, data) ==
  IF page_id \in DOMAIN disk THEN [disk EXCEPT ![page_id] = data] ELSE disk

\* the ids are handed out in increasing order, starting at 0
AllocatePage(next_page_id) == [page_id |-> next_page_id, next_page_id |-> next_page_id + 1]

\* the set of ids handed to DeallocatePage by a call that deallocates page_id
DeallocatePage(page_id) == {page_id}

(* -------------------------- BufferPoolManager ------------------------- *)
\* Page::Page
NewFrame == [page_id |-> INVALID_PAGE_ID, pin_count |-> 0, is_dirty |-> FALSE, data |-> 0]

\* BufferPoolManager::BufferPoolManager: every frame is in the free list
BufferPoolManager(pool_size) ==
  [pages         |-> [f \in 1..pool_size |-> NewFrame],
   page_table    |-> ExtendibleHash(BUCKET_SIZE),
   replacer      |-> <<>>,
   free_list     |-> [i \in 1..pool_size |-> i],
   disk          |-> [p \in PageIds |-> 0],
   next_page_id  |-> 0]

\* the frame FetchPage and NewPage take for the new page: the head of the free
\* list, else the replacer's victim, else none (p = nullptr)
TakeFrame(s) ==
  IF s.free_list # <<>>
  THEN [p |-> Head(s.free_list), free_list |-> Tail(s.free_list),
        replacer |-> s.replacer, src |-> "free_list"]
  ELSE LET v == LRU_Victim(s.replacer) IN
       [p |-> v.value, free_list |-> s.free_list, replacer |-> v.list,
        src |-> IF v.ret THEN "replacer" ELSE "none"]

\* [bpm, ret, src]: ret is the frame returned (nullptr: none)
FetchPage(s, page_id) ==
  LET found == Hash_Find(s.page_table, page_id) IN
  IF found.found
  THEN [bpm |-> [s EXCEPT !.pages[found.value].pin_count = @ + 1],
        ret |-> found.value, src |-> "page_table"]
  ELSE
    LET t == TakeFrame(s) IN
    IF t.p = nullptr THEN [bpm |-> s, ret |-> nullptr, src |-> "none"]
    ELSE
      LET old   == s.pages[t.p]
          disk1 == IF old.is_dirty THEN WritePage(s.disk, old.page_id, old.data)
                   ELSE s.disk
          pt1   == IF old.page_id # INVALID_PAGE_ID
                   THEN Hash_Remove(s.page_table, old.page_id).hash
                   ELSE s.page_table
          pt2   == Hash_Insert(pt1, page_id, t.p)
      IN [bpm |-> [s EXCEPT !.free_list = t.free_list,
                            !.replacer = t.replacer,
                            !.disk = disk1,
                            !.page_table = pt2,
                            !.pages[t.p] = [page_id   |-> page_id,
                                            is_dirty  |-> FALSE,
                                            pin_count |-> 1,
                                            data      |-> ReadPage(disk1, page_id)]],
          ret |-> t.p, src |-> t.src]

\* UnpinPage that tests pin_count < 0 instead of pin_count <= 0
UnpinPage_NoZeroCheck(s, page_id, is_dirty) ==
  LET found == Hash_Find(s.page_table, page_id)
      p     == found.value
  IN IF ~found.found \/ s.pages[p].pin_count < 0 THEN [bpm |-> s, ret |-> FALSE]
     ELSE LET s1 == [s EXCEPT !.pages[p].pin_count = @ - 1,
                              !.pages[p].is_dirty = is_dirty]
          IN [bpm |-> IF s1.pages[p].pin_count = 0
                      THEN [s1 EXCEPT !.replacer = LRU_Insert(@, p)]
                      ELSE s1,
              ret |-> TRUE]

\* [bpm, ret]
UnpinPage(s, page_id, is_dirty) ==
  LET found == Hash_Find(s.page_table, page_id)
      p     == found.value
  IN IF ~found.found \/ s.pages[p].pin_count <= 0 THEN [bpm |-> s, ret |-> FALSE]
     ELSE LET s1 == [s EXCEPT !.pages[p].pin_count = @ - 1,
                              !.pages[p].is_dirty = is_dirty]
          IN [bpm |-> IF s1.pages[p].pin_count = 0
                      THEN [s1 EXCEPT !.replacer = LRU_Insert(@, p)]
                      ELSE s1,
              ret |-> TRUE]

\* FlushPage that reports success without writing the page
FlushPage_NoWrite(s, page_id) ==
  LET found == Hash_Find(s.page_table, page_id) IN
  IF ~found.found THEN [bpm |-> s, ret |-> FALSE]
  ELSE [bpm |-> s, ret |-> TRUE]

\* [bpm, ret]
FlushPage(s, page_id) ==
  LET found == Hash_Find(s.page_table, page_id) IN
  IF ~found.found THEN [bpm |-> s, ret |-> FALSE]
  ELSE [bpm |-> [s EXCEPT !.disk = WritePage(@, page_id, s.pages[found.value].data)],
        ret |-> TRUE]

\* DeletePage that does not look at the pin count
DeletePage_NoPinCheck(s, page_id) ==
  LET found == Hash_Find(s.page_table, page_id)
      p     == found.value
  IN IF ~found.found
     THEN [bpm |-> s, ret |-> FALSE, deallocated |-> {}]
     ELSE [bpm |-> [s EXCEPT !.page_table = Hash_Remove(@, page_id).hash,
                             !.pages[p].pin_count = 0,
                             !.pages[p].is_dirty = FALSE,
                             !.pages[p].page_id = INVALID_PAGE_ID,
                             !.free_list = Append(@, p)],
           ret |-> TRUE, deallocated |-> DeallocatePage(page_id)]

\* [bpm, ret, deallocated]: deallocated is the set of the page ids handed to the
\* disk manager's DeallocatePage
DeletePage(s, page_id) ==
  LET found == Hash_Find(s.page_table, page_id)
      p     == found.value
  IN IF ~found.found \/ s.pages[p].pin_count # 0
     THEN [bpm |-> s, ret |-> FALSE, deallocated |-> {}]
     ELSE [bpm |-> [s EXCEPT !.page_table = Hash_Remove(@, page_id).hash,
                             !.pages[p].pin_count = 0,
                             !.pages[p].is_dirty = FALSE,
                             !.pages[p].page_id = INVALID_PAGE_ID,
                             !.free_list = Append(@, p)],
           ret |-> TRUE, deallocated |-> DeallocatePage(page_id)]

\* [bpm, ret, src, page_id]: page_id is the id the disk manager allocated
NewPage(s) ==
  LET t == TakeFrame(s) IN
  IF t.p = nullptr
  THEN [bpm |-> s, ret |-> nullptr, src |-> "none", page_id |-> INVALID_PAGE_ID]
  ELSE
    LET old     == s.pages[t.p]
        disk1   == IF old.is_dirty THEN WritePage(s.disk, old.page_id, old.data)
                   ELSE s.disk
        pt1     == IF old.page_id # INVALID_PAGE_ID
                   THEN Hash_Remove(s.page_table, old.page_id).hash
                   ELSE s.page_table
        alloc   == AllocatePage(s.next_page_id)
        page_id == alloc.page_id
    IN [bpm |-> [s EXCEPT !.free_list = t.free_list,
                          !.replacer = t.replacer,
                          !.disk = disk1,
                          !.next_page_id = alloc.next_page_id,
                          !.pages[t.p] = [page_id   |-> page_id,
                                          is_dirty  |-> FALSE,
                                          pin_count |-> 1,
                                          data      |-> 0],
                          !.page_table = Hash_Insert(pt1, page_id, t.p)],
        ret |-> t.p, src |-> t.src, page_id |-> page_id]

(* ------------------ the entry points, statement by statement ---------- *)
\* Each entry point in two parts: the lookup up to the choice of the frame p
\* (result [bpm, p, done], done: the function has returned), and the statements
\* after it, which work on p.

\* lines 53-63
FetchPage_Find(s, page_id) ==
  LET found == Hash_Find(s.page_table, page_id) IN
  IF found.found
  THEN [bpm |-> [s EXCEPT !.pages[found.value].pin_count = @ + 1],
        p |-> found.value, done |-> TRUE]
  ELSE LET t == TakeFrame(s) IN
       [bpm |-> [s EXCEPT !.free_list = t.free_list, !.replacer = t.replacer],
        p |-> t.p, done |-> (t.p = nullptr)]

\* lines 65-76
FetchPage_Install(s, page_id, p) ==
  LET old   == s.pages[p]
      disk1 == IF old.is_dirty THEN WritePage(s.disk, old.page_id, old.data)
               ELSE s.disk
      pt1   == IF old.page_id # INVALID_PAGE_ID
               THEN Hash_Remove(s.page_table, old.page_id).hash
               ELSE s.page_table
  IN [s EXCEPT !.disk = disk1,
               !.page_table = Hash_Insert(pt1, page_id, p),
               !.pages[p] = [page_id |-> page_id, is_dirty |-> FALSE,
                             pin_count |-> 1, data |-> ReadPage(disk1, page_id)]]

\* line 90
UnpinPage_Find(s, page_id) ==
  LET found == Hash_Find(s.page_table, page_id) IN
  [bpm |-> s, p |-> found.value,
   done |-> (~found.found \/ s.pages[found.value].pin_count <= 0)]

\* lines 91-93
UnpinPage_Update(s, p, is_dirty) ==
  LET s1 == [s EXCEPT !.pages[p].pin_count = @ - 1, !.pages[p].is_dirty = is_dirty]
  IN IF s1.pages[p].pin_count = 0
     THEN [s1 EXCEPT !.replacer = LRU_Insert(@, p)]
     ELSE s1

\* line 107
FlushPage_Find(s, page_id) ==
  LET found == Hash_Find(s.page_table, page_id) IN
  [bpm |-> s, p |-> found.value, done |-> ~found.found]

\* line 108
FlushPage_Write(s, page_id, p) ==
  [s EXCEPT !.disk = WritePage(@, page_id, s.pages[p].data)]

\* line 125
DeletePage_Find(s, page_id) ==
  LET found == Hash_Find(s.page_table, page_id) IN
  [bpm |-> s, p |-> found.value,
   done |-> (~found.found \/ s.pages[found.value].pin_count # 0)]

\* lines 127-135
DeletePage_Reset(s, page_id, p) ==
  [s EXCEPT !.page_table = Hash_Remove(@, page_id).hash,
            !.pages[p].pin_count = 0,
            !.pages[p].is_dirty = FALSE,
            !.pages[p].page_id = INVALID_PAGE_ID,
            !.free_list = Append(@, p)]

\* lines 150-156
NewPage_Find(s) ==
  LET t == TakeFrame(s) IN
  [bpm |-> [s EXCEPT !.free_list = t.free_list, !.replacer = t.replacer],
   p |-> t.p, done |-> (t.p = nullptr)]

\* lines 158-170
NewPage_Install(s, p) ==
  LET old   == s.pages[p]
      disk1 == IF old.is_dirty THEN WritePage(s.disk, old.page_id, old.data)
               ELSE s.disk
      pt1   == IF old.page_id # INVALID_PAGE_ID
               THEN Hash_Remove(s.page_table, old.page_id).hash
               ELSE s.page_table
      alloc == AllocatePage(s.next_page_id)
  IN [s EXCEPT !.disk = disk1,
               !.next_page_id = alloc.next_page_id,
               !.pages[p] = [page_id |-> alloc.page_id, is_dirty |-> FALSE,
                             pin_count |-> 1, data |-> 0],
               !.page_table = Hash_Insert(pt1, alloc.page_id, p)]

\* the pool after the call c = [op, page_id, is_dirty], run as a whole
Pool_Call(s, c) ==
  CASE c.op = "FetchPage"  -> FetchPage(s, c.page_id).bpm
    [] c.op = "NewPage"    -> NewPage(s).bpm
    [] c.op = "UnpinPage"  -> UnpinPage(s, c.page_id, c.is_dirty).bpm
    [] c.op = "FlushPage"  -> FlushPage(s, c.page_id).bpm
    [] c.op = "DeletePage" -> DeletePage(s, c.page_id).bpm

\* the first part of the call c
Pool_Find(s, c) ==
  CASE c.op = "FetchPage"  -> FetchPage_Find(s, c.page_id)
    [] c.op = "NewPage"    -> NewPage_Find(s)
    [] c.op = "UnpinPage"  -> UnpinPage_Find(s, c.page_id)
    [] c.op = "FlushPage"  -> FlushPage_Find(s, c.page_id)
    [] c.op = "DeletePage" -> DeletePage_Find(s, c.page_id)

\* the second part of the call c, on the frame c.p
Pool_Finish(s, c) ==
  CASE c.op = "FetchPage"  -> FetchPage_Install(s, c.page_id, c.p)
    [] c.op = "NewPage"    -> NewPage_Install(s, c.p)
    [] c.op = "UnpinPage"  -> UnpinPage_Update(s, c.p, c.is_dirty)
    [] c.op = "FlushPage"  -> FlushPage_Write(s, c.page_id, c.p)
    [] c.op = "DeletePage" -> DeletePage_Reset(s, c.page_id, c.p)

\* lock_guard that does not wait for the latch
lock_guard_NoWait(latch_) == TRUE

\* lock_guard<mutex> guard(latch_) goes on when no thread holds latch_
lock_guard(latch_) == latch_ = 0

(* ------------------------------ B+ tree ------------------------------- *)
(* A tree page is a record of its header fields and its array; a pointer   *)
(* to a node is the id of its page. The tree runs on a pool that is large  *)
(* enough to keep every page resident, of which the tree state keeps the   *)
(* pin count of each page. Array indexes are those of the code (from 0).   *)
(* The field undefined is set when a call leaves what the code defines: a  *)
(* write outside the array of a page, a read outside it whose result is    *)
(* used as an entry or decides the call, a fetch of an id that names no    *)
(* tree page, or an exception. The run ends there.                         *)

Entry(first, second) == [first |-> first, second |-> second]

ArrayCap == IF MaxLeafSize > MaxInternalSize THEN MaxLeafSize ELSE MaxInternalSize

Slots == 0..(ArrayCap - 1)

TreePageIds == 1..MaxTreePages

\* the bytes of a page after ResetMemory
ZeroPage ==
  [page_type_ |-> "INVALID_INDEX_PAGE", size_ |-> 0, max_size_ |-> 0,
   parent_page_id_ |-> 0, page_id_ |-> 0, next_page_id_ |-> 0,
   array |-> [i \in Slots |-> Entry(0, 0)]]

\* BPlusTreePage
IsLeafPage(n) == n.page_type_ = "LEAF_PAGE"

IsRootPage(n) == n.parent_page_id_ = INVALID_PAGE_ID

GetMinSize(n) == (n.max_size_ + 1) \div 2

\* BPlusTreeLeafPage::Init
\* max_size: (PAGE_SIZE - sizeof(BPlusTreeLeafPage)) / sizeof(MappingType)
Leaf_Init(n, page_id, parent_id, max_size) ==
  [n EXCEPT !.page_id_ = page_id, !.parent_page_id_ = parent_id,
            !.page_type_ = "LEAF_PAGE", !.size_ = 0,
            !.next_page_id_ = INVALID_PAGE_ID, !.max_size_ = max_size]

\* BPlusTreeInternalPage::Init
\* max_size: (PAGE_SIZE - sizeof(BPlusTreeInternalPage)) / sizeof(MappingType)
Internal_Init(n, page_id, parent_id, max_size) ==
  [n EXCEPT !.page_id_ = page_id, !.parent_page_id_ = parent_id,
            !.page_type_ = "INTERNAL_PAGE", !.size_ = 0,
            !.max_size_ = max_size]

\* for (i = size; i > index; i--) array[i] = array[i - 1]
ShiftUp(array, index, size) ==
  [i \in Slots |-> IF index < i /\ i <= size THEN array[i - 1] ELSE array[i]]

\* for (i = index + 1; i < size; i++) array[i - 1] = array[i]
ShiftDown(array, index, size) ==
  [i \in Slots |-> IF index <= i /\ i < size - 1 THEN array[i + 1] ELSE array[i]]

(* --------------------------- BPlusTreeLeafPage ------------------------- *)
Leaf_KeyIndex(n, key) ==
  LET at == {i \in 0..(n.size_ - 1) : n.array[i].first >= key}
  IN  IF at = {} THEN -1 ELSE MinOf(at)

\* before: whether the bytes in front of the array compare equal to key
Leaf_Lookup(n, key, before) ==
  LET index == Leaf_KeyIndex(n, key)
  IN  IF index = -1 THEN [found |-> before, value |-> 0]
      ELSE IF n.array[index].first = key
           THEN [found |-> TRUE, value |-> n.array[index].second]
           ELSE [found |-> FALSE, value |-> 0]

Leaf_Insert(n, key, value, before) ==
  IF n.size_ = 0
  THEN [n EXCEPT !.size_ = 1, !.array[0] = Entry(key, value)]
  ELSE LET index == Leaf_KeyIndex(n, key)
           size == n.size_
       IN  IF index = -1
           THEN IF before THEN n
                ELSE [n EXCEPT !.array[size] = Entry(key, value), !.size_ = size + 1]
           ELSE IF n.array[index].first = key THEN n
                ELSE [n EXCEPT !.array = [ShiftUp(n.array, index, size)
                                            EXCEPT ![index] = Entry(key, value)],
                               !.size_ = size + 1]

\* recipient->CopyHalfFrom(&array[half_size], size - half_size) on the recipient
Leaf_CopyHalfFrom(r, items, size) ==
  [r EXCEPT !.array = [i \in Slots |-> IF i < size THEN items[i] ELSE r.array[i]],
            !.size_ = size]

\* the entries from array[from] on, as the callee indexes them
ItemsFrom(n, from) ==
  [i \in Slots |-> IF from + i \in Slots THEN n.array[from + i] ELSE Entry(0, 0)]

\* RemoveAndDeleteRecord of a key that Lookup found at an index of the array
Leaf_RemoveAndDeleteRecord(n, key) ==
  LET index == Leaf_KeyIndex(n, key)
  IN  IF index # -1 /\ n.array[index].first = key
      THEN [n EXCEPT !.array = ShiftDown(n.array, index, n.size_),
                     !.size_ = n.size_ - 1]
      ELSE n

Leaf_CopyAllFrom(r, items, size) ==
  [r EXCEPT !.array = [i \in Slots |->
                         IF r.size_ <= i /\ i < r.size_ + size
                         THEN items[i - r.size_] ELSE r.array[i]],
            !.size_ = size + r.size_]

Leaf_CopyLastFrom(r, item) ==
  [r EXCEPT !.array[r.size_] = item, !.size_ = r.size_ + 1]

(* ------------------------- BPlusTreeInternalPage ----------------------- *)
Internal_ValueIndex(n, value) ==
  LET at == {i \in 0..(n.size_ - 1) : n.array[i].second = value}
  IN  IF at = {} THEN -1 ELSE MinOf(at)

Internal_Lookup(n, key) ==
  LET at == {i \in 1..(n.size_ - 1) : key < n.array[i].first}
  IN  IF at = {} THEN n.array[n.size_ - 1].second
      ELSE n.array[MinOf(at) - 1].second

Internal_PopulateNewRoot(n, old_value, new_key, new_value) ==
  IF IsRootPage(n)
  THEN [n EXCEPT !.array[0].second = old_value,
                 !.array[1] = Entry(new_key, new_value), !.size_ = 2]
  ELSE n

Internal_InsertNodeAfter(n, old_value, new_key, new_value) ==
  LET index == Internal_ValueIndex(n, old_value)
  IN  IF index # -1
      THEN [n EXCEPT !.array = [ShiftUp(n.array, index + 1, n.size_)
                                  EXCEPT ![index + 1] = Entry(new_key, new_value)],
                     !.size_ = n.size_ + 1]
      ELSE n

Internal_Remove(n, index) ==
  [n EXCEPT !.array = ShiftDown(n.array, index, n.size_), !.size_ = n.size_ - 1]

(* ------------------- the pool as the tree calls it --------------------- *)
\* an id that names a page holding a tree node
IsTreePage(t, page_id) ==
  /\ page_id \in TreePageIds
  /\ page_id < t.next_page_id
  /\ t.pages[page_id].page_type_ # "INVALID_INDEX_PAGE"

Undefined(t) == [t EXCEPT !.undefined = TRUE]

\* BufferPoolManager::FetchPage of a resident page
Tree_FetchPage(t, page_id) ==
  IF t.undefined THEN t
  ELSE IF page_id = HEADER_PAGE_ID \/ IsTreePage(t, page_id)
       THEN [t EXCEPT !.pin[page_id] = @ + 1]
       ELSE Undefined(t)

\* BufferPoolManager::UnpinPage: false, and no change, when the page is not
\* in the pool or its pin count is not positive
Tree_UnpinPage(t, page_id, is_dirty) ==
  IF page_id \in DOMAIN t.pin /\ t.pin[page_id] > 0
  THEN [t EXCEPT !.pin[page_id] = @ - 1, !.dirty[page_id] = is_dirty]
  ELSE t

\* BufferPoolManager::NewPage: the next id of the disk manager, zeroed, pinned
Tree_NewPage(t) ==
  [t EXCEPT !.pages[t.next_page_id] = ZeroPage,
            !.pin[t.next_page_id] = 1,
            !.dirty[t.next_page_id] = FALSE,
            !.next_page_id = @ + 1]

\* BufferPoolManager::DeletePage: false, and no change, when the page is pinned
Tree_DeletePage(t, page_id) ==
  IF page_id \in TreePageIds /\ page_id < t.next_page_id /\ t.pin[page_id] = 0
  THEN [t EXCEPT !.pages[page_id] = ZeroPage, !.dirty[page_id] = FALSE,
                 !.deleted = @ \cup {page_id}]
  ELSE t

\* the pool takes the frame of the page page_id, which is not pinned, as the
\* victim of a FetchPage or NewPage for a page of another user, writing the
\* page to the disk when it is dirty, and the page is read from the disk by
\* the next FetchPage of it
Tree_Evict(t, page_id) ==
  IF t.dirty[page_id]
  THEN [t EXCEPT !.disk[page_id] = t.pages[page_id], !.dirty[page_id] = FALSE]
  ELSE [t EXCEPT !.pages[page_id] = t.disk[page_id]]

SetNode(t, page_id, n) == [t EXCEPT !.pages[page_id] = n]

(* ------------------------------ BPlusTree ------------------------------ *)
\* a tree on a pool that holds the header page only; leaf_max_size and
\* internal_max_size are the max_size_ that Init gives the pages of the
\* instantiation
\* what the last call of the internal page's CopyFirstFrom did with the pool:
\* the parent it fetched, the page id it unpinned, and the pages whose pin
\* count it left changed (a record of the run, no field of the class)
NoCopyFirstFrom ==
  [called |-> FALSE, parent |-> INVALID_PAGE_ID, unpinned |-> INVALID_PAGE_ID, changed |-> {}]

BPlusTree(root_page_id, leaf_max_size, internal_max_size) ==
  [root_page_id_ |-> root_page_id,
   leaf_max_size |-> leaf_max_size,
   internal_max_size |-> internal_max_size,
   pages |-> [p \in TreePageIds |-> ZeroPage],
   pin |-> [p \in {HEADER_PAGE_ID} \cup TreePageIds |-> 0],
   dirty |-> [p \in {HEADER_PAGE_ID} \cup TreePageIds |-> FALSE],
   disk |-> [p \in TreePageIds |-> ZeroPage],
   next_page_id |-> 1,
   deleted |-> {},
   header |-> [present |-> FALSE, root_id |-> INVALID_PAGE_ID],
   copy_first_from |-> NoCopyFirstFrom,
   undefined |-> FALSE]

IsEmpty(t) == t.root_page_id_ = INVALID_PAGE_ID

\* HeaderPage, the record table of index name -> root page id, with the one
\* name of this index: InsertRecord adds the record of a name that has none
HeaderPage_InsertRecord(h, root_id) ==
  IF h.present THEN h ELSE [present |-> TRUE, root_id |-> root_id]

\* UpdateRecord changes the record of a name that has one
HeaderPage_UpdateRecord(h, root_id) ==
  IF h.present THEN [h EXCEPT !.root_id = root_id] ELSE h

UpdateRootPageId(t, insert_record) ==
  LET t1 == Tree_FetchPage(t, HEADER_PAGE_ID)
      t2 == IF insert_record
            THEN [t1 EXCEPT !.header = HeaderPage_InsertRecord(@, t.root_page_id_)]
            ELSE [t1 EXCEPT !.header = HeaderPage_UpdateRecord(@, t.root_page_id_)]
  IN  Tree_UnpinPage(t2, HEADER_PAGE_ID, TRUE)

\* NewNode<N>(parent_id): the node is the page t.next_page_id of the argument
NewNode(t, type, parent_id) ==
  LET page_id == t.next_page_id
      t1 == Tree_NewPage(t)
  IN  SetNode(t1, page_id,
              IF type = "LEAF_PAGE"
              THEN Leaf_Init(t1.pages[page_id], page_id, parent_id, t.leaf_max_size)
              ELSE Internal_Init(t1.pages[page_id], page_id, parent_id,
                                 t.internal_max_size))

\* FindLeafPage from the page page_id on, which is pinned; fuel bounds the
\* descent through a directory that is no tree any more
RECURSIVE Descend(_, _, _, _, _)
Descend(t, page_id, key, leftMost, fuel) ==
  IF t.undefined THEN [t |-> t, leaf |-> INVALID_PAGE_ID]
  ELSE IF IsLeafPage(t.pages[page_id]) THEN [t |-> t, leaf |-> page_id]
  ELSE IF fuel = 0 \/ t.pages[page_id].size_ = 0
       THEN [t |-> Undefined(t), leaf |-> INVALID_PAGE_ID]
  ELSE LET internal_p == t.pages[page_id]
           child == IF leftMost THEN internal_p.array[0].second
                    ELSE Internal_Lookup(internal_p, key)
           t1 == Tree_UnpinPage(t, page_id, FALSE)
           t2 == Tree_FetchPage(t1, child)
       IN  Descend(t2, child, key, leftMost, fuel - 1)

FindLeafPage(t, key, leftMost) ==
  Descend(Tree_FetchPage(t, t.root_page_id_), t.root_page_id_, key, leftMost,
          MaxTreePages)

\* GetValue: the tree afterwards, the result, the value pushed on result
GetValue(t, key, before) ==
  IF IsEmpty(t) THEN [t |-> t, ret |-> FALSE, value |-> 0]
  ELSE LET f == FindLeafPage(t, key, FALSE) IN
       IF f.t.undefined THEN [t |-> f.t, ret |-> FALSE, value |-> 0]
       ELSE LET l == Leaf_Lookup(f.t.pages[f.leaf], key, before)
            IN  [t |-> Tree_UnpinPage(f.t, f.leaf, FALSE), ret |-> l.found,
                 value |-> l.value]

StartNewTree(t, key, value) ==
  LET page_id == t.next_page_id
      t1 == NewNode(t, "LEAF_PAGE", INVALID_PAGE_ID)
      t2 == UpdateRootPageId([t1 EXCEPT !.root_page_id_ = page_id], TRUE)
      t3 == SetNode(t2, page_id, Leaf_Insert(t2.pages[page_id], key, value, FALSE))
  IN  Tree_UnpinPage(t3, page_id, FALSE)

\* child_node->SetParentPageId(this_page_id) between FetchPage and UnpinPage
Reparent(t, child_page_id, this_page_id) ==
  LET t1 == Tree_FetchPage(t, child_page_id)
  IN  IF t1.undefined THEN t1
      ELSE Tree_UnpinPage([t1 EXCEPT !.pages[child_page_id].parent_page_id_ = this_page_id],
                          child_page_id, TRUE)

\* the loop of BPlusTreeInternalPage::CopyHalfFrom from i on
RECURSIVE Internal_CopyHalfFrom(_, _, _, _, _)
Internal_CopyHalfFrom(t, recipient, items, i, size) ==
  IF t.undefined THEN t
  ELSE IF i >= size THEN [t EXCEPT !.pages[recipient].size_ = size]
  ELSE LET t1 == [t EXCEPT !.pages[recipient].array[i] = items[i]]
       IN  Internal_CopyHalfFrom(Reparent(t1, items[i].second, recipient),
                                 recipient, items, i + 1, size)

\* Split<N>: the new node is the page t.next_page_id of the argument
Split(t, node) ==
  LET n == t.pages[node]
      recipient == t.next_page_id
      t1 == NewNode(t, n.page_type_, n.parent_page_id_)
      size == n.size_
      half_size == size \div 2
      items == ItemsFrom(n, half_size)
  IN  IF IsLeafPage(n)
      THEN [t1 EXCEPT !.pages[recipient] = Leaf_CopyHalfFrom(@, items, size - half_size),
                      !.pages[node].size_ = half_size]
      ELSE LET t2 == Internal_CopyHalfFrom(t1, recipient, items, 0, size - half_size)
           IN  [t2 EXCEPT !.pages[node].size_ = half_size]

RECURSIVE InsertIntoParent(_, _, _, _)
InsertIntoParent(t, old_node, key, new_node) ==
  IF t.undefined THEN t
  ELSE IF IsRootPage(t.pages[old_node])
  THEN LET parent_page_id == t.next_page_id
           t1 == NewNode(t, "INTERNAL_PAGE", INVALID_PAGE_ID)
           t2 == [t1 EXCEPT !.pages[parent_page_id] =
                              Internal_PopulateNewRoot(@, old_node, key, new_node),
                            !.pages[old_node].parent_page_id_ = parent_page_id,
                            !.pages[new_node].parent_page_id_ = parent_page_id,
                            !.root_page_id_ = parent_page_id]
           t3 == UpdateRootPageId(t2, FALSE)
       IN  Tree_UnpinPage(Tree_UnpinPage(Tree_UnpinPage(t3, old_node, TRUE),
                                         new_node, TRUE),
                          parent_page_id, TRUE)
  ELSE LET parent_node == t.pages[old_node].parent_page_id_
           t1 == Tree_FetchPage(t, parent_node)
       IN  IF t1.undefined THEN t1
           ELSE IF IsLeafPage(t1.pages[parent_node]) THEN Undefined(t1)
           ELSE IF t1.pages[parent_node].size_ < t1.pages[parent_node].max_size_
           THEN LET t2 == [t1 EXCEPT !.pages[parent_node] =
                                       Internal_InsertNodeAfter(@, old_node, key, new_node)]
                IN  Tree_UnpinPage(Tree_UnpinPage(Tree_UnpinPage(t2, old_node, TRUE),
                                                  new_node, TRUE),
                                   parent_node, TRUE)
           ELSE LET new_parent_node == t1.next_page_id
                    t2 == Split(t1, parent_node)
                IN  IF t2.undefined THEN t2
                    ELSE LET t3 == IF key < t2.pages[new_parent_node].array[1].first
                                   THEN [t2 EXCEPT !.pages[parent_node] =
                                           Internal_InsertNodeAfter(@, old_node, key, new_node)]
                                   ELSE [t2 EXCEPT !.pages[new_parent_node] =
                                           Internal_InsertNodeAfter(@, old_node, key, new_node),
                                           !.pages[new_node].parent_page_id_ = new_parent_node]
                             t4 == Tree_UnpinPage(Tree_UnpinPage(t3, old_node, TRUE), new_node, TRUE)
                         IN  InsertIntoParent(t4, parent_node,
                                              t4.pages[new_parent_node].array[0].first,
                                              new_parent_node)

\* InsertIntoLeaf: the tree afterwards and the result
InsertIntoLeaf(t, key, value, before) ==
  LET f == FindLeafPage(t, key, FALSE) IN
  IF f.t.undefined THEN [t |-> f.t, ret |-> FALSE]
  ELSE LET leaf_node == f.leaf
           n == f.t.pages[leaf_node]
       IN  IF Leaf_Lookup(n, key, before).found THEN [t |-> f.t, ret |-> FALSE]
           ELSE IF n.size_ < n.max_size_
           THEN [t |-> Tree_UnpinPage(SetNode(f.t, leaf_node,
                                              Leaf_Insert(n, key, value, before)),
                                      leaf_node, TRUE),
                 ret |-> TRUE]
           ELSE LET new_leaf_node == f.t.next_page_id
                    t1 == Split(f.t, leaf_node)
                    t2 == IF key < t1.pages[new_leaf_node].array[0].first
                          THEN [t1 EXCEPT !.pages[leaf_node] =
                                            Leaf_Insert(@, key, value, before)]
                          ELSE [t1 EXCEPT !.pages[new_leaf_node] =
                                            Leaf_Insert(@, key, value, before)]
                    t3 == [t2 EXCEPT !.pages[leaf_node].next_page_id_ = new_leaf_node]
                IN  [t |-> InsertIntoParent(t3, leaf_node,
                                            t3.pages[new_leaf_node].array[0].first,
                                            new_leaf_node),
                     ret |-> TRUE]

Tree_Insert(t, key, value, before) ==
  IF IsEmpty(t) THEN [t |-> StartNewTree(t, key, value), ret |-> TRUE]
  ELSE InsertIntoLeaf(t, key, value, before)

\* AdjustRoot of the root old_root_node, which the caller holds pinned
AdjustRoot(t, old_root_node) ==
  LET n == t.pages[old_root_node] IN
  IF IsLeafPage(n)
  THEN IF n.size_ = 0
       THEN LET t1 == Tree_DeletePage(t, t.root_page_id_)
            IN  UpdateRootPageId([t1 EXCEPT !.root_page_id_ = INVALID_PAGE_ID], FALSE)
       ELSE t
  ELSE IF n.size_ = 1
       THEN LET child_page_id == n.array[0].second
                t1 == Tree_DeletePage(t, old_root_node)
                t2 == UpdateRootPageId([t1 EXCEPT !.root_page_id_ = child_page_id], FALSE)
                t3 == Tree_FetchPage(t2, child_page_id)
            IN  IF t3.undefined THEN t3
                ELSE Tree_UnpinPage([t3 EXCEPT !.pages[child_page_id].parent_page_id_ =
                                                 INVALID_PAGE_ID],
                                    child_page_id, TRUE)
       ELSE t

\* BPlusTreeLeafPage::MoveFirstToEndOf on the page this_, with CopyLastFrom
Leaf_MoveFirstToEndOf(t, this_, recipient) ==
  LET n == t.pages[this_] IN
  IF n.size_ < 2 THEN Undefined(t)
  ELSE LET t1 == [t EXCEPT !.pages[recipient] = Leaf_CopyLastFrom(@, n.array[0]),
                           !.pages[this_].array = ShiftDown(n.array, 0, n.size_),
                           !.pages[this_].size_ = n.size_ - 1]
           parent == n.parent_page_id_
           t2 == Tree_FetchPage(t1, parent)
       IN  IF t2.undefined THEN t2
           ELSE Tree_UnpinPage([t2 EXCEPT !.pages[parent].array[1].first =
                                            t1.pages[this_].array[0].first],
                               parent, TRUE)

\* BPlusTreeLeafPage::MoveLastToFrontOf on the page this_, with CopyFirstFrom
Leaf_MoveLastToFrontOf(t, this_, recipient, parentIndex) ==
  LET n == t.pages[this_] IN
  IF n.size_ < 1 THEN Undefined(t)
  ELSE LET pair == n.array[n.size_ - 1]
           t1 == [t EXCEPT !.pages[this_].size_ = n.size_ - 1]
           r == t1.pages[recipient]
           parent == r.parent_page_id_
           t2 == Tree_FetchPage(t1, parent)
       IN  IF t2.undefined THEN t2
           ELSE LET t3 == Tree_UnpinPage([t2 EXCEPT !.pages[parent].array[parentIndex].first =
                                                      pair.first],
                                         parent, TRUE)
                IN  [t3 EXCEPT !.pages[recipient].array =
                                 [ShiftUp(r.array, 0, r.size_) EXCEPT ![0] = pair],
                               !.pages[recipient].size_ = r.size_ + 1]

\* BPlusTreeInternalPage::MoveFirstToEndOf on the page this_, with CopyLastFrom
Internal_MoveFirstToEndOf(t, this_, recipient) ==
  LET n == t.pages[this_]
      pair == Entry(n.array[1].first, n.array[0].second)
      t1 == [t EXCEPT !.pages[this_] = Internal_Remove(@, 0)]
      r == t1.pages[recipient]
      size == r.size_
      parent == r.parent_page_id_
      t2 == Tree_FetchPage(t1, parent)
  IN  IF n.size_ < 1 \/ size >= r.max_size_ THEN Undefined(t)
      ELSE IF t2.undefined THEN t2
      ELSE LET t3 == [t2 EXCEPT !.pages[recipient].array[size] =
                                  Entry(t2.pages[parent].array[1].first, pair.second),
                                !.pages[recipient].size_ = size + 1]
               t4 == [t3 EXCEPT !.pages[parent].array[1].first = pair.first]
           IN  Reparent(Tree_UnpinPage(t4, parent, TRUE), pair.second, recipient)

\* BPlusTreeInternalPage::MoveLastToFrontOf on the page this_, with
\* CopyFirstFrom
Internal_MoveLastToFrontOf(t, this_, recipient, parent_index) ==
  LET n == t.pages[this_] IN
  IF n.size_ < 1 THEN Undefined(t)
  ELSE LET pair == n.array[n.size_ - 1]
           t1 == [t EXCEPT !.pages[this_] = Internal_Remove(@, n.size_ - 1)]
           r == t1.pages[recipient]
           size == r.size_
           parent == r.parent_page_id_
           t2 == Tree_FetchPage(t1, parent)
       IN  IF size >= r.max_size_ THEN Undefined(t)
           ELSE IF t2.undefined THEN t2
           ELSE LET shifted == ShiftUp(r.array, 0, size)
                    t3 == [t2 EXCEPT !.pages[recipient].array =
                                       [shifted EXCEPT
                                          ![0].second = pair.second,
                                          ![1].first = t2.pages[parent].array[parent_index].first],
                                     !.pages[recipient].size_ = size + 1]
                    t4 == [t3 EXCEPT !.pages[parent].array[parent_index].first = pair.first]
                    unpinned == t4.pages[parent].parent_page_id_
                    t5 == Tree_UnpinPage(t4, unpinned, TRUE)
                    t6 == Reparent(t5, pair.second, recipient)
                IN  [t6 EXCEPT !.copy_first_from =
                       [called |-> TRUE, parent |-> parent, unpinned |-> unpinned,
                        changed |-> {p \in DOMAIN t6.pin : t6.pin[p] # t1.pin[p]}]]

Redistribute(t, neighbor_node, node, index) ==
  IF IsLeafPage(t.pages[node])
  THEN IF index = 0 THEN Leaf_MoveFirstToEndOf(t, neighbor_node, node)
       ELSE Leaf_MoveLastToFrontOf(t, neighbor_node, node, index)
  ELSE IF index = 0 THEN Internal_MoveFirstToEndOf(t, neighbor_node, node)
       ELSE Internal_MoveLastToFrontOf(t, neighbor_node, node, index)

\* BPlusTreeLeafPage::MoveAllTo on the page this_
Leaf_MoveAllTo(t, this_, recipient) ==
  LET n == t.pages[this_]
      r == t.pages[recipient]
  IN  IF r.size_ + n.size_ > r.max_size_ THEN Undefined(t)
      ELSE [t EXCEPT !.pages[recipient] =
                       [Leaf_CopyAllFrom(r, n.array, n.size_)
                          EXCEPT !.next_page_id_ = n.next_page_id_],
                     !.pages[this_].size_ = 0]

\* the loop of BPlusTreeInternalPage::CopyAllFrom from i on
RECURSIVE Internal_CopyAllFrom(_, _, _, _, _)
Internal_CopyAllFrom(t, recipient, items, i, size) ==
  IF t.undefined THEN t
  ELSE IF i >= size
  THEN [t EXCEPT !.pages[recipient].size_ = @ + size]
  ELSE IF size + i >= t.pages[recipient].max_size_ THEN Undefined(t)
  ELSE LET t1 == [t EXCEPT !.pages[recipient].array[size + i] = items[i]]
       IN  Internal_CopyAllFrom(Reparent(t1, items[i].second, recipient),
                                recipient, items, i + 1, size)

\* BPlusTreeInternalPage::MoveAllTo on the page this_
Internal_MoveAllTo(t, this_, recipient, index_in_parent) ==
  LET parent == t.pages[this_].parent_page_id_
      t1 == Tree_FetchPage(t, parent)
  IN  IF t1.undefined THEN t1
      ELSE LET t2 == [t1 EXCEPT !.pages[this_].array[0].first =
                                  t1.pages[parent].array[index_in_parent].first]
               t3 == Tree_UnpinPage(t2, parent, FALSE)
           IN  Internal_CopyAllFrom(t3, recipient, t3.pages[this_].array, 0,
                                    t3.pages[this_].size_)

Coalesce(t, neighbor_node, node, parent, index) ==
  LET t1 == IF IsLeafPage(t.pages[node]) THEN Leaf_MoveAllTo(t, node, neighbor_node)
            ELSE Internal_MoveAllTo(t, node, neighbor_node, index)
  IN  IF t1.undefined THEN t1
      ELSE Tree_DeletePage([t1 EXCEPT !.pages[parent] = Internal_Remove(@, index)], node)

RECURSIVE CoalesceOrRedistribute(_, _)
CoalesceOrRedistribute(t, node) ==
  IF t.undefined THEN t
  ELSE LET n == t.pages[node] IN
  IF IsRootPage(n) THEN AdjustRoot(t, node)
  ELSE IF n.size_ >= GetMinSize(n) THEN Tree_UnpinPage(t, node, TRUE)
  ELSE LET parent == n.parent_page_id_
           t1 == Tree_FetchPage(t, parent)
       IN  IF t1.undefined THEN t1
           ELSE LET p == t1.pages[parent]
                    index == Internal_ValueIndex(p, node)
                    at == IF index = 0 THEN index + 1 ELSE index - 1
                IN  IF IsLeafPage(p) \/ at < 0 \/ at >= p.max_size_ THEN Undefined(t1)
                    ELSE LET sibling == p.array[at].second
                             t2 == Tree_FetchPage(t1, sibling)
                         IN  IF t2.undefined THEN t2
                             ELSE IF \/ sibling = node
                                     \/ t2.pages[sibling].page_type_ # n.page_type_
                             THEN Undefined(t2)
                             ELSE LET t3 ==
                                        IF t2.pages[sibling].size_ + n.size_ > n.max_size_
                                        THEN Tree_UnpinPage(
                                               Redistribute(t2, sibling, node, index), sibling,
                                               TRUE)
                                        ELSE IF index = 0
                                        THEN Tree_UnpinPage(
                                               Coalesce(t2, node, sibling, parent, 1), node,
                                               TRUE)
                                        ELSE Tree_UnpinPage(
                                               Coalesce(t2, sibling, node, parent, index),
                                               sibling, TRUE)
                                  IN  CoalesceOrRedistribute(t3, parent)

Tree_Remove(t, key, before) ==
  IF IsEmpty(t) THEN t
  ELSE LET f == FindLeafPage(t, key, FALSE) IN
       IF f.t.undefined THEN f.t
       ELSE LET leaf_node == f.leaf
                n == f.t.pages[leaf_node]
            IN  IF Leaf_Lookup(n, key, before).found
                THEN IF Leaf_KeyIndex(n, key) = -1 THEN Undefined(f.t)
                     ELSE CoalesceOrRedistribute(
                            SetNode(f.t, leaf_node, Leaf_RemoveAndDeleteRecord(n, key)),
                            leaf_node)
                ELSE f.t

\* the keys an IndexIterator from Begin() yields up to isEnd(), from the leaf
\* page_id on; fuel bounds a chain that runs in a circle
RECURSIVE LeafKeysFrom(_, _, _)
LeafKeysFrom(t, page_id, fuel) ==
  IF fuel = 0 \/ ~IsTreePage(t, page_id) THEN <<>>
  ELSE LET n == t.pages[page_id]
           here == [i \in 1..n.size_ |-> n.array[i - 1].first]
       IN  IF n.next_page_id_ = INVALID_PAGE_ID THEN here
           ELSE here \o LeafKeysFrom(t, n.next_page_id_, fuel - 1)

IteratorKeys(t) ==
  LET f == FindLeafPage(t, 0, TRUE)
  IN  IF f.t.undefined THEN <<>> ELSE LeafKeysFrom(t, f.leaf, MaxTreePages)

(* ----------------------------- IndexIterator --------------------------- *)
\* an iterator is live from its constructor to its destructor
IndexIterator(current_leaf, index) ==
  [live |-> TRUE, current_leaf_ |-> current_leaf, index_ |-> index, is_end_ |-> FALSE]

NoIterator ==
  [live |-> FALSE, current_leaf_ |-> INVALID_PAGE_ID, index_ |-> 0, is_end_ |-> FALSE]

\* BPlusTree::Begin(): the tree afterwards and the iterator
Tree_Begin(t) ==
  LET f == FindLeafPage(t, 0, TRUE)
  IN  [t |-> f.t, it |-> IndexIterator(f.leaf, 0)]

\* BPlusTree::Begin(key)
Tree_BeginKey(t, key) ==
  LET f == FindLeafPage(t, key, FALSE)
  IN  [t |-> f.t,
       it |-> IndexIterator(f.leaf, IF f.t.undefined THEN 0
                                    ELSE Leaf_KeyIndex(f.t.pages[f.leaf], key))]

\* IndexIterator::operator++
Iterator_Next(t, it) ==
  LET n == t.pages[it.current_leaf_] IN
  IF it.index_ < n.size_ - 1 THEN [t |-> t, it |-> [it EXCEPT !.index_ = @ + 1]]
  ELSE IF n.next_page_id_ = INVALID_PAGE_ID
  THEN [t |-> t, it |-> [it EXCEPT !.is_end_ = TRUE]]
  ELSE LET t1 == Tree_FetchPage(t, n.next_page_id_)
       IN  IF t1.undefined THEN [t |-> t1, it |-> it]
           ELSE [t |-> Tree_UnpinPage(t1, it.current_leaf_, FALSE),
                 it |-> [it EXCEPT !.current_leaf_ = n.next_page_id_, !.index_ = 0]]

\* IndexIterator::operator* with BPlusTreeLeafPage::GetItem: the key of the
\* pair, or the exception "out of range"
Iterator_Deref(t, it) ==
  LET n == t.pages[it.current_leaf_] IN
  IF it.index_ < 0 \/ it.index_ >= n.size_ THEN [throws |-> TRUE, first |-> 0, second |-> 0]
  ELSE [throws |-> FALSE, first |-> n.array[it.index_].first,
        second |-> n.array[it.index_].second]

\* IndexIterator::~IndexIterator: the tree with its pool afterwards
Iterator_Destroy(t, it) == t

(* ------------------------------ state --------------------------------- *)
VARIABLES
  latch,        \* the thread that holds the pool's latch_, 0 when it is free
  thread,       \* thread -> the call it is in and how far it has come
  serial        \* the pool as the calls made so far leave it when they are run
                \* one at a time, in the order in which they took the latch

VARIABLES
  list_,        \* LRUReplacer::list_ of a replacer run on its own, head first
  recency       \* the values inserted and not taken out since, oldest most
                \* recent Insert first

VARIABLES
  hash,         \* an ExtendibleHash<int, int> run on its own
  model,        \* key -> the value of its last Insert, 0 when the key was never
                \* inserted or was removed since
  hthread       \* thread -> the call of the hash table it is in and how far it
                \* has come

VARIABLES
  tree,         \* a BPlusTree run on its own, with its pages
  stored,       \* key -> the value of its last Insert that returned true, 0
                \* when there is none or the key was removed since
  iterator,     \* an IndexIterator on the tree
  began         \* the call that made the iterator, the pin counts before it,
                \* whether the iterator was advanced since

VARIABLES
  bpm,          \* the buffer pool manager with its disk
  calls,        \* number of calls made so far
  last,         \* the call made last, with its arguments and result
  outstanding,  \* page id -> successful FetchPage/NewPage minus successful UnpinPage
  committed,    \* page id -> contents at its last UnpinPage(id, true), NoData when
                \* there is none or the page was modified or deleted since
  unpinned,     \* frames holding a page with pin count 0, oldest drop to 0 first
  flushed       \* page id -> contents at its last successful FlushPage, NoData when
                \* there is none or the page was modified or deleted since

\* the variables of the components that are exercised on their own
threadVars == <<latch, thread, serial>>
lruVars == <<list_, recency>>
hashVars == <<hash, model, hthread>>
treeVars == <<tree, stored, iterator, began>>
others == <<threadVars, lruVars, hashVars, treeVars>>

vars == <<bpm, calls, last, outstanding, committed, unpinned, flushed, others>>

Threads == 1..NumThreads

Idle == [pc |-> "idle", op |-> "none", page_id |-> INVALID_PAGE_ID,
         is_dirty |-> FALSE, p |-> nullptr]

\* a value that is no page contents
NoData == MaxData + 1

\* op: the entry point called; page_id, is_dirty: its arguments (for NewPage the
\* id allocated); ret: whether it succeeded; frame: the frame returned or acted
\* on; src: where FetchPage/NewPage found the frame; deallocated: the ids handed
\* to DeallocatePage
NoCall == [op |-> "none", page_id |-> INVALID_PAGE_ID, is_dirty |-> FALSE,
           ret |-> FALSE, frame |-> nullptr, src |-> "none", deallocated |-> {}]

InitPool ==
  /\ bpm = BufferPoolManager(PoolSize)
  /\ calls = 0
  /\ last = NoCall
  /\ outstanding = [p \in PageIds |-> 0]
  /\ committed = [p \in PageIds |-> NoData]
  /\ unpinned = <<>>
  /\ flushed = [p \in PageIds |-> NoData]

InitThreads ==
  /\ latch = 0
  /\ thread = [t \in Threads |-> Idle]
  /\ serial = BufferPoolManager(PoolSize)

\* LRUReplacer::LRUReplacer
InitLRU ==
  /\ list_ = <<>>
  /\ recency = <<>>

Keys == 0..MaxKey
HashValues == 1..MaxHashValue

\* ExtendibleHash::ExtendibleHash(size)
\* a thread outside the hash table; todo: the pairs the Insert it is in has
\* still to insert, the pair of the innermost Insert first
HIdle == [pc |-> "idle", op |-> "none", key |-> 0, index |-> 0, todo |-> <<>>]

InitHash(size) ==
  /\ hash = ExtendibleHash(size)
  /\ model = [k \in Keys |-> 0]
  /\ hthread = [t \in Threads |-> HIdle]

TreeKeys == 0..MaxTreeKey
TreeValues == 1..MaxTreeValue

\* BPlusTree::BPlusTree with the default root_page_id
InitTree(leaf_max_size, internal_max_size) ==
  /\ tree = BPlusTree(INVALID_PAGE_ID, leaf_max_size, internal_max_size)
  /\ stored = [k \in TreeKeys |-> 0]
  /\ iterator = NoIterator
  /\ began = [key |-> -1, pin |-> tree.pin, advanced |-> FALSE]

Init ==
  /\ InitPool
  /\ InitThreads
  /\ InitLRU
  /\ InitHash(BUCKET_SIZE)
  /\ InitTree(MaxLeafSize - 1, MaxInternalSize)

Allocated == {p \in PageIds : p < bpm.next_page_id}

\* the frame that holds page_id according to the frames' own metadata
FrameOf(s, page_id) == FirstOf({f \in DOMAIN s.pages : s.pages[f].page_id = page_id})

(* ------------------------------ actions ------------------------------- *)
\* the callers keep at most MaxPin pins on a page
FetchPageCall(page_id) ==
  /\ page_id \in Allocated
  /\ \A f \in Frames :
       bpm.pages[f].page_id = page_id => bpm.pages[f].pin_count < MaxPin
  /\ LET r == FetchPage(bpm, page_id) IN
     /\ bpm' = r.bpm
     /\ last' = [NoCall EXCEPT !.op = "FetchPage", !.page_id = page_id,
                               !.ret = (r.ret # nullptr), !.frame = r.ret,
                               !.src = r.src]

\* the disk manager hands out the ids 0..MaxPages-1
NewPageCall ==
  /\ bpm.next_page_id < MaxPages
  /\ LET r == NewPage(bpm) IN
     /\ bpm' = r.bpm
     /\ last' = [NoCall EXCEPT !.op = "NewPage", !.page_id = r.page_id,
                               !.ret = (r.ret # nullptr), !.frame = r.ret,
                               !.src = r.src]

UnpinPageCall(page_id, is_dirty) ==
  /\ page_id \in Allocated
  /\ LET r == UnpinPage(bpm, page_id, is_dirty) IN
     /\ bpm' = r.bpm
     /\ last' = [NoCall EXCEPT !.op = "UnpinPage", !.page_id = page_id,
                               !.is_dirty = is_dirty, !.ret = r.ret,
                               !.frame = IF r.ret THEN FrameOf(bpm, page_id)
                                         ELSE nullptr]

FlushPageCall(page_id) ==
  /\ page_id \in Allocated
  /\ LET r == FlushPage(bpm, page_id) IN
     /\ bpm' = r.bpm
     /\ last' = [NoCall EXCEPT !.op = "FlushPage", !.page_id = page_id,
                               !.ret = r.ret]

DeletePageCall(page_id) ==
  /\ page_id \in Allocated
  /\ LET r == DeletePage(bpm, page_id) IN
     /\ bpm' = r.bpm
     /\ last' = [NoCall EXCEPT !.op = "DeletePage", !.page_id = page_id,
                               !.ret = r.ret, !.deallocated = r.deallocated]

\* a caller that was handed a frame for page_id and still holds its pin
\* overwrites the page's contents
CallerWrite(page_id, data) ==
  /\ page_id \in Allocated
  /\ LET f == FrameOf(bpm, page_id) IN
     /\ f # nullptr
     /\ bpm.pages[f].pin_count > 0
     /\ bpm.pages[f].data # data
     /\ bpm' = [bpm EXCEPT !.pages[f].data = data]
     /\ last' = [NoCall EXCEPT !.op = "Write", !.page_id = page_id,
                               !.ret = TRUE, !.frame = f]

(* ------------------------- history variables -------------------------- *)
\* the frames of unpinned that still hold their page with pin count 0, followed
\* by the frames whose pin count dropped to 0 in this step
NextUnpinned ==
  LET keep == SelectSeq(unpinned, LAMBDA f :
                /\ bpm'.pages[f].pin_count = 0
                /\ bpm'.pages[f].page_id = bpm.pages[f].page_id)
      drop == {f \in Frames : bpm.pages[f].pin_count > 0 /\ bpm'.pages[f].pin_count = 0}
  IN keep \o SortedSeq(drop)

NextOutstanding ==
  IF last'.op \in {"FetchPage", "NewPage"} /\ last'.ret
  THEN [outstanding EXCEPT ![last'.page_id] = @ + 1]
  ELSE IF last'.op = "UnpinPage" /\ last'.ret
  THEN [outstanding EXCEPT ![last'.page_id] = @ - 1]
  ELSE outstanding

NextCommitted ==
  IF last'.op = "UnpinPage" /\ last'.ret /\ last'.is_dirty
  THEN [committed EXCEPT ![last'.page_id] = bpm.pages[last'.frame].data]
  ELSE IF last'.op = "Write" \/ (last'.op = "DeletePage" /\ last'.ret)
  THEN [committed EXCEPT ![last'.page_id] = NoData]
  ELSE committed

\* the history variables follow the call; the callers never keep more than
\* MaxPin pins on a page
Observe ==
  /\ calls < MaxCalls
  /\ calls' = calls + 1
  /\ unpinned' = NextUnpinned
  /\ outstanding' = NextOutstanding
  /\ committed' = NextCommitted
  /\ \A p \in PageIds : outstanding'[p] <= MaxPin
  /\ UNCHANGED <<flushed, others>>

Unobserved ==
  /\ calls < MaxCalls
  /\ calls' = calls + 1
  /\ UNCHANGED <<outstanding, committed, unpinned, flushed, others>>

NextFlushed ==
  IF last'.op = "FlushPage" /\ last'.ret
  THEN [flushed EXCEPT ![last'.page_id] = bpm.pages[FrameOf(bpm, last'.page_id)].data]
  ELSE IF last'.op = "Write" \/ (last'.op = "DeletePage" /\ last'.ret)
  THEN [flushed EXCEPT ![last'.page_id] = NoData]
  ELSE flushed

\* only the history of FlushPage follows the call
ObserveFlush ==
  /\ calls < MaxFlushCalls
  /\ calls' = calls + 1
  /\ flushed' = NextFlushed
  /\ UNCHANGED <<outstanding, committed, unpinned, others>>

(* --------------------------- specifications --------------------------- *)
\* the pool under every sequence of calls, with the history variables
Next ==
  \/ (\E page_id \in PageIds : FetchPageCall(page_id)) /\ Observe
  \/ NewPageCall /\ Observe
  \/ (\E page_id \in PageIds, is_dirty \in BOOLEAN :
        UnpinPageCall(page_id, is_dirty)) /\ Observe
  \/ (\E page_id \in PageIds : FlushPageCall(page_id)) /\ Observe
  \/ (\E page_id \in PageIds : DeletePageCall(page_id)) /\ Observe
  \/ (\E page_id \in PageIds, data \in Data : CallerWrite(page_id, data)) /\ Observe

Spec == Init /\ [][Next]_vars

\* the pool under every sequence of calls, history variables left alone
NextCalls ==
  \/ (\E page_id \in PageIds : FetchPageCall(page_id)) /\ Unobserved
  \/ NewPageCall /\ Unobserved
  \/ (\E page_id \in PageIds, is_dirty \in BOOLEAN :
        UnpinPageCall(page_id, is_dirty)) /\ Unobserved
  \/ (\E page_id \in PageIds : FlushPageCall(page_id)) /\ Unobserved
  \/ (\E page_id \in PageIds : DeletePageCall(page_id)) /\ Unobserved
  \/ (\E page_id \in PageIds, data \in Data : CallerWrite(page_id, data)) /\ Unobserved

SpecCalls == Init /\ [][NextCalls]_vars

\* the pool under every sequence of calls, with the history of FlushPage
NextFlush ==
  \/ (\E page_id \in PageIds : FetchPageCall(page_id)) /\ ObserveFlush
  \/ NewPageCall /\ ObserveFlush
  \/ (\E page_id \in PageIds, is_dirty \in BOOLEAN :
        UnpinPageCall(page_id, is_dirty)) /\ ObserveFlush
  \/ (\E page_id \in PageIds : FlushPageCall(page_id)) /\ ObserveFlush
  \/ (\E page_id \in PageIds : DeletePageCall(page_id)) /\ ObserveFlush
  \/ (\E page_id \in PageIds, data \in Data : CallerWrite(page_id, data)) /\ ObserveFlush

SpecFlush == Init /\ [][NextFlush]_vars

(* ------------------------ the pool under threads ---------------------- *)
\* the calls a thread can make
PoolCalls ==
  {[op |-> "NewPage", page_id |-> INVALID_PAGE_ID, is_dirty |-> FALSE]}
  \cup {[op |-> o, page_id |-> id, is_dirty |-> FALSE] :
          o \in {"FetchPage", "FlushPage", "DeletePage"}, id \in PageIds}
  \cup {[op |-> "UnpinPage", page_id |-> id, is_dirty |-> d] :
          id \in PageIds, d \in BOOLEAN}

ghosts == <<last, outstanding, committed, unpinned, flushed, lruVars, hashVars, treeVars>>

\* thread t calls an entry point and takes the latch
Enter(t, c) ==
  /\ thread[t].pc = "idle"
  /\ calls < MaxThreadCalls
  /\ IF c.op = "NewPage"
     THEN bpm.next_page_id < MaxPages /\ serial.next_page_id < MaxPages
     ELSE c.page_id < bpm.next_page_id
  /\ lock_guard(latch)
  /\ latch' = t
  /\ thread' = [thread EXCEPT ![t] = [pc |-> "find", op |-> c.op,
                                      page_id |-> c.page_id,
                                      is_dirty |-> c.is_dirty, p |-> nullptr]]
  /\ serial' = Pool_Call(serial, c)
  /\ calls' = calls + 1
  /\ UNCHANGED <<bpm, ghosts>>

\* thread t runs the first part of its call; a call that returns there gives
\* the latch back
Find(t) ==
  /\ thread[t].pc = "find"
  /\ LET r == Pool_Find(bpm, thread[t]) IN
     /\ bpm' = r.bpm
     /\ thread' = [thread EXCEPT ![t] = IF r.done THEN Idle
                                        ELSE [@ EXCEPT !.pc = "finish", !.p = r.p]]
     /\ latch' = IF r.done THEN 0 ELSE latch
  /\ UNCHANGED <<calls, serial, ghosts>>

\* thread t runs the rest of its call, returns and gives the latch back
Finish(t) ==
  /\ thread[t].pc = "finish"
  /\ bpm' = Pool_Finish(bpm, thread[t])
  /\ thread' = [thread EXCEPT ![t] = Idle]
  /\ latch' = 0
  /\ UNCHANGED <<calls, serial, ghosts>>

NextThreads ==
  \/ \E t \in Threads, c \in PoolCalls : Enter(t, c)
  \/ \E t \in Threads : Find(t)
  \/ \E t \in Threads : Finish(t)

SpecThreads == Init /\ [][NextThreads]_vars

(* ----------------------- the replacer on its own --------------------- *)
poolVars == <<bpm, outstanding, committed, unpinned, flushed>>

Values == 1..MaxValue

\* s without the value v
Without(s, v) == SelectSeq(s, LAMBDA x : x # v)

\* op: the function called; value: its argument or the value it handed back;
\* ret: its result; found: whether Insert found the value in list_
LRUCall(op, value, ret, found) == [op |-> op, value |-> value, ret |-> ret, found |-> found]

LRUStep ==
  /\ calls < MaxLRUCalls
  /\ calls' = calls + 1
  /\ UNCHANGED <<poolVars, threadVars, hashVars, treeVars>>

LRUInsertCall(value) ==
  /\ list_' = LRU_Insert(list_, value)
  /\ recency' = Append(Without(recency, value), value)
  /\ last' = LRUCall("Insert", value, TRUE, value \in Range(list_))
  /\ LRUStep

LRUVictimCall ==
  /\ LET r == LRU_Victim(list_) IN
     /\ list_' = r.list
     /\ recency' = IF r.ret THEN Without(recency, r.value) ELSE recency
     /\ last' = LRUCall("Victim", r.value, r.ret, FALSE)
  /\ LRUStep

LRUEraseCall(value) ==
  /\ LET r == LRU_Erase(list_, value) IN
     /\ list_' = r.list
     /\ recency' = IF r.ret THEN Without(recency, value) ELSE recency
     /\ last' = LRUCall("Erase", value, r.ret, FALSE)
  /\ LRUStep

LRUSizeCall ==
  /\ last' = LRUCall("Size", LRU_Size(list_), TRUE, FALSE)
  /\ UNCHANGED lruVars
  /\ LRUStep

NextLRU ==
  \/ \E value \in Values : LRUInsertCall(value)
  \/ LRUVictimCall
  \/ \E value \in Values : LRUEraseCall(value)
  \/ LRUSizeCall

SpecLRU == Init /\ [][NextLRU]_vars

(* ---------------------- the hash table on its own --------------------- *)
\* op: the function called; key, value: its arguments (for Find the value
\* found); ret: its result (for Insert: whether it returned)
HashCall(op, key, value, ret) == [op |-> op, key |-> key, value |-> value, ret |-> ret]

\* an Insert that does not return ends the run
HashStep ==
  /\ ~hash.overflow
  /\ calls < MaxHashCalls
  /\ calls' = calls + 1
  /\ UNCHANGED <<poolVars, threadVars, lruVars, treeVars>>

HashInsertCall(key, value) ==
  /\ hash' = Hash_Insert(hash, key, value)
  /\ model' = [model EXCEPT ![key] = value]
  /\ last' = HashCall("Insert", key, value, ~hash'.overflow)
  /\ UNCHANGED hthread
  /\ HashStep

\* Insert of a key that is not in the table
HashInsertNewCall(key, value) ==
  /\ model[key] = 0
  /\ HashInsertCall(key, value)

HashRemoveCall(key) ==
  /\ LET r == Hash_Remove(hash, key) IN
     /\ hash' = r.hash
     /\ last' = HashCall("Remove", key, 0, r.ret)
  /\ model' = [model EXCEPT ![key] = 0]
  /\ UNCHANGED hthread
  /\ HashStep

HashFindCall(key) ==
  /\ LET r == Hash_Find(hash, key) IN
     last' = HashCall("Find", key, IF r.found THEN r.value ELSE 0, r.found)
  /\ UNCHANGED hashVars
  /\ HashStep

InitHashes ==
  /\ InitPool
  /\ InitThreads
  /\ InitLRU
  /\ \E size \in 1..MaxHashSize : InitHash(size)
  /\ InitTree(MaxLeafSize - 1, MaxInternalSize)

\* every sequence of Insert, Remove and Find
NextHash ==
  \/ \E key \in Keys, value \in HashValues : HashInsertCall(key, value)
  \/ \E key \in Keys : HashRemoveCall(key)
  \/ \E key \in Keys : HashFindCall(key)

SpecHash == InitHashes /\ [][NextHash]_vars

\* every sequence of Insert of keys that are not in the table, Remove and Find
NextHashMap ==
  \/ \E key \in Keys, value \in HashValues : HashInsertNewCall(key, value)
  \/ \E key \in Keys : HashRemoveCall(key)
  \/ \E key \in Keys : HashFindCall(key)

SpecHashMap == InitHashes /\ [][NextHashMap]_vars

(* --------------------- the hash table under threads ------------------- *)
\* The calls run region by region: HashKey (under latch_), EntryAt with the call
\* on the bucket it returns (under latch_, then the bucket's latch_), the
\* doubling of the directory (lines 180-189) and the split (lines 190-205). The
\* calls of Insert nested in an Insert are run in the order of lines 206-209.

HashThreadStep(t, next) ==
  /\ hthread' = [hthread EXCEPT ![t] = next]
  /\ UNCHANGED <<poolVars, threadVars, lruVars, treeVars>>

\* thread t calls Find(key), Remove(key) of a key that is in the table or
\* Insert(key, value) of a key that is not; no other thread is in a call for key
HCall(t, op, key, value) ==
  /\ hthread[t].pc = "idle"
  /\ calls < MaxHashThreadCalls
  /\ \A u \in Threads : hthread[u].pc # "idle" => hthread[u].key # key
  /\ op = "Insert" => model[key] = 0
  /\ op = "Remove" => model[key] # 0
  /\ calls' = calls + 1
  /\ model' = IF op = "Remove" THEN [model EXCEPT ![key] = 0] ELSE model
  /\ UNCHANGED <<hash, last>>
  /\ HashThreadStep(t, [pc |-> "hash", op |-> op, key |-> key, index |-> 0,
                        todo |-> IF op = "Insert"
                                 THEN <<[first |-> key, second |-> value]>>
                                 ELSE <<>>])

\* HashKey(key)
HHashKey(t) ==
  /\ hthread[t].pc = "hash"
  /\ LET c == hthread[t]
         k == IF c.op = "Insert" THEN Head(c.todo).first ELSE c.key
     IN HashThreadStep(t, [c EXCEPT !.index = HashKey(hash, k),
                                    !.pc = IF c.op = "Insert" THEN "probe" ELSE "lookup"])
  /\ UNCHANGED <<calls, hash, model, last>>

\* EntryAt(index)->Find(key, value) or EntryAt(index)->Remove(key), and return
HLookup(t) ==
  /\ hthread[t].pc = "lookup"
  /\ LET c  == hthread[t]
         bi == hash.buckets_table[c.index + 1]
     IN IF c.op = "Find"
        THEN LET r == Bucket_Find(hash.heap[bi], c.key) IN
             /\ last' = HashCall("Find", c.key, IF r.found THEN r.value ELSE 0, r.found)
             /\ hash' = hash
        ELSE LET r == Bucket_Remove(hash.heap[bi], c.key) IN
             /\ last' = HashCall("Remove", c.key, 0, r.ret)
             /\ hash' = [hash EXCEPT !.heap[bi] = r.bucket]
  /\ HashThreadStep(t, HIdle)
  /\ UNCHANGED <<calls, model>>

\* line 179: EntryAt(index)->Full()
HProbe(t) ==
  /\ hthread[t].pc = "probe"
  /\ HashThreadStep(t, [hthread[t] EXCEPT
                          !.pc = IF Bucket_Full(EntryAt(hash, hthread[t].index))
                                 THEN "grow" ELSE "store"])
  /\ UNCHANGED <<calls, hash, model, last>>

\* line 211: EntryAt(index)->Insert(key, value), and return; the Insert the
\* thread called has returned when nothing is left to insert
HStore(t) ==
  /\ hthread[t].pc = "store"
  /\ LET c  == hthread[t]
         kv == Head(c.todo)
         bi == hash.buckets_table[c.index + 1]
     IN /\ hash' = [hash EXCEPT !.heap[bi] = Bucket_Insert(@, kv.first, kv.second)]
        /\ IF Len(c.todo) = 1
           THEN /\ HashThreadStep(t, HIdle)
                /\ model' = [model EXCEPT ![c.key] = kv.second]
                /\ last' = HashCall("Insert", c.key, kv.second, TRUE)
           ELSE /\ HashThreadStep(t, [c EXCEPT !.pc = "hash", !.todo = Tail(c.todo)])
                /\ UNCHANGED <<model, last>>
  /\ UNCHANGED calls

\* lines 180-189; a thread whose splits have taken the bucket to local depth
\* MaxRecursion is not followed further
HGrow(t) ==
  /\ hthread[t].pc = "grow"
  /\ EntryAt(hash, hthread[t].index).local_depth < MaxRecursion
  /\ hash.global_depth < MaxRecursion
  /\ hash' = Hash_Grow(hash, hthread[t].index)
  /\ HashThreadStep(t, [hthread[t] EXCEPT !.pc = "split"])
  /\ UNCHANGED <<calls, model, last>>

\* lines 190-205; the items of the bucket are inserted next, then the pair the
\* Insert was called with
HSplit(t) ==
  /\ hthread[t].pc = "split"
  /\ LET c == hthread[t] IN
     /\ hash' = Hash_Reassign(hash, c.index)
     /\ HashThreadStep(t, [c EXCEPT !.pc = "hash",
                                    !.todo = Bucket_GetItems(EntryAt(hash, c.index)) \o @])
  /\ UNCHANGED <<calls, model, last>>

\* the threads work on the keys 0..NumThreads and insert key with value key + 1
ThreadKeys == 0..NumThreads

NextHashThreads ==
  \/ \E t \in Threads, key \in ThreadKeys : HCall(t, "Find", key, 0)
  \/ \E t \in Threads, key \in ThreadKeys : HCall(t, "Remove", key, 0)
  \/ \E t \in Threads, key \in ThreadKeys : HCall(t, "Insert", key, key + 1)
  \/ \E t \in Threads : HHashKey(t)
  \/ \E t \in Threads : HLookup(t)
  \/ \E t \in Threads : HProbe(t)
  \/ \E t \in Threads : HStore(t)
  \/ \E t \in Threads : HGrow(t)
  \/ \E t \in Threads : HSplit(t)

SpecHashThreads == Init /\ [][NextHashThreads]_vars

\* one thread, which runs its calls region by region
NextHashSteps ==
  \/ \E key \in Keys : HCall(1, "Find", key, 0)
  \/ \E key \in Keys : HCall(1, "Remove", key, 0)
  \/ \E key \in Keys : HCall(1, "Insert", key, key + 1)
  \/ HHashKey(1)
  \/ HLookup(1)
  \/ HProbe(1)
  \/ HStore(1)
  \/ HGrow(1)
  \/ HSplit(1)

SpecHashSteps == Init /\ [][NextHashSteps]_vars

(* ------------------------- the tree on its own ------------------------- *)
\* op: the function called; key, value: its arguments (for GetValue the value
\* pushed on result); ret: its result (for Remove: whether the key was stored)
TreeCall(op, key, value, ret) == [op |-> op, key |-> key, value |-> value, ret |-> ret]

\* number of levels under the page page_id, along the first children
RECURSIVE LevelsFrom(_, _, _)
LevelsFrom(t, page_id, fuel) ==
  IF fuel = 0 \/ ~IsTreePage(t, page_id) THEN 0
  ELSE IF IsLeafPage(t.pages[page_id]) THEN 1
  ELSE 1 + LevelsFrom(t, t.pages[page_id].array[0].second, fuel - 1)

\* the disk manager has the ids for the pages an Insert may take: one for
\* each level and one for a new root
HasRoom(t) == t.next_page_id + LevelsFrom(t, t.root_page_id_, MaxTreePages) <= MaxTreePages

\* the tree after a call with the outcome r, which is plain when the bytes in
\* front of the arrays do not equal the key
AfterCall(r, plain, before) == IF before /\ r # plain THEN Undefined(r.t) ELSE r.t

TreeStep(bound) ==
  /\ ~tree.undefined
  /\ calls < bound
  /\ calls' = calls + 1
  /\ UNCHANGED <<poolVars, threadVars, lruVars, hashVars, iterator, began>>

TreeInsertCall(key, value, before, bound) ==
  /\ TreeStep(bound)
  /\ HasRoom(tree)
  /\ LET r == Tree_Insert(tree, key, value, before)
         plain == Tree_Insert(tree, key, value, FALSE)
     IN  /\ tree' = AfterCall(r, plain, before)
         /\ last' = TreeCall("Insert", key, value, r.ret)
         /\ stored' = IF r.ret THEN [stored EXCEPT ![key] = value] ELSE stored

TreeRemoveCall(key, before, bound) ==
  /\ TreeStep(bound)
  /\ LET t == [tree EXCEPT !.copy_first_from = NoCopyFirstFrom]
     IN  tree' = AfterCall([t |-> Tree_Remove(t, key, before)],
                           [t |-> Tree_Remove(t, key, FALSE)], before)
  /\ last' = TreeCall("Remove", key, 0, stored[key] # 0)
  /\ stored' = [stored EXCEPT ![key] = 0]

TreeGetValueCall(key, before, bound) ==
  /\ TreeStep(bound)
  /\ LET r == GetValue(tree, key, before)
         plain == GetValue(tree, key, FALSE)
     IN  /\ tree' = AfterCall(r, plain, before)
         /\ last' = TreeCall("GetValue", key, r.value, r.ret)
  /\ UNCHANGED stored

\* trees of every instantiation
InitTrees ==
  /\ InitPool
  /\ InitThreads
  /\ InitLRU
  /\ InitHash(BUCKET_SIZE)
  /\ \E leaf_max_size \in (MaxLeafSize - 1)..MaxLeafSize,
        internal_max_size \in (MaxInternalSize - 1)..MaxInternalSize :
       InitTree(leaf_max_size, internal_max_size)

\* every sequence of Insert, Remove and GetValue
NextTree ==
  \/ \E key \in TreeKeys, value \in TreeValues, before \in BOOLEAN :
       TreeInsertCall(key, value, before, MaxTreeCalls)
  \/ \E key \in TreeKeys, before \in BOOLEAN : TreeRemoveCall(key, before, MaxTreeCalls)
  \/ \E key \in TreeKeys, before \in BOOLEAN : TreeGetValueCall(key, before, MaxTreeCalls)

SpecTree == InitTrees /\ [][NextTree]_vars

\* the tree used as a map: Insert of a key that is not stored, Remove of a key
\* that is, with no bytes in front of an array that equal a key
NextTreeMap ==
  \/ \E key \in TreeKeys :
       /\ stored[key] = 0
       /\ TreeInsertCall(key, key + 1, FALSE, MaxTreeMapCalls)
  \/ \E key \in TreeKeys :
       /\ stored[key] # 0
       /\ TreeRemoveCall(key, FALSE, MaxTreeMapCalls)

SpecTreeMap == Init /\ [][NextTreeMap]_vars

NextTreeDeep ==
  \/ \E key \in TreeKeys :
       /\ stored[key] = 0
       /\ TreeInsertCall(key, key + 1, FALSE, MaxTreeDeepCalls)
  \/ \E key \in TreeKeys :
       /\ stored[key] # 0
       /\ TreeRemoveCall(key, FALSE, MaxTreeDeepCalls)

\* the map with leaves of two pairs and internal pages of three, which has
\* three levels after six Inserts
InitTreeDeep ==
  /\ InitPool
  /\ InitThreads
  /\ InitLRU
  /\ InitHash(BUCKET_SIZE)
  /\ InitTree(MaxLeafSize - 1, MaxInternalSize - 1)

SpecTreeDeep == InitTreeDeep /\ [][NextTreeDeep]_vars

(* -------------------------- the tree iterated -------------------------- *)
IteratorStep(bound) ==
  /\ ~tree.undefined
  /\ calls < bound
  /\ calls' = calls + 1
  /\ UNCHANGED <<poolVars, threadVars, lruVars, hashVars, stored>>

\* Begin() on a tree that is not empty; no key is recorded as -1
TreeBeginCall(bound) ==
  /\ IteratorStep(bound)
  /\ ~iterator.live /\ ~IsEmpty(tree)
  /\ LET r == Tree_Begin(tree)
     IN  /\ tree' = r.t
         /\ iterator' = r.it
         /\ began' = [key |-> -1, pin |-> tree.pin, advanced |-> FALSE]
         /\ last' = TreeCall("Begin", -1, 0, TRUE)

\* Begin(key) on a tree that is not empty
TreeBeginKeyCall(key, bound) ==
  /\ IteratorStep(bound)
  /\ ~iterator.live /\ ~IsEmpty(tree)
  /\ LET r == Tree_BeginKey(tree, key)
     IN  /\ tree' = r.t
         /\ iterator' = r.it
         /\ began' = [key |-> key, pin |-> tree.pin, advanced |-> FALSE]
         /\ last' = TreeCall("Begin", key, 0, TRUE)

IteratorNextCall(bound) ==
  /\ IteratorStep(bound)
  /\ iterator.live
  /\ LET r == Iterator_Next(tree, iterator)
     IN  /\ tree' = r.t
         /\ iterator' = r.it
         /\ began' = [began EXCEPT !.advanced = TRUE]
         /\ last' = TreeCall("operator++", 0, 0, ~r.it.is_end_)

\* operator*: ret is whether it returned a pair, key and value are the pair
IteratorDerefCall(bound) ==
  /\ IteratorStep(bound)
  /\ iterator.live
  /\ LET r == Iterator_Deref(tree, iterator)
     IN  last' = TreeCall("operator*", r.first, r.second, ~r.throws)
  /\ UNCHANGED <<tree, iterator, began>>

IteratorDestroyCall(bound) ==
  /\ IteratorStep(bound)
  /\ iterator.live
  /\ tree' = Iterator_Destroy(tree, iterator)
  /\ iterator' = NoIterator
  /\ last' = TreeCall("~IndexIterator", 0, 0, TRUE)
  /\ UNCHANGED began

\* Inserts of keys that are not stored, then iterators over the tree, one at
\* a time
NextTreeIter ==
  \/ \E key \in TreeKeys :
       /\ stored[key] = 0 /\ ~iterator.live
       /\ TreeInsertCall(key, key + 1, FALSE, MaxTreeIterCalls)
  \/ TreeBeginCall(MaxTreeIterCalls)
  \/ \E key \in TreeKeys : TreeBeginKeyCall(key, MaxTreeIterCalls)
  \/ IteratorNextCall(MaxTreeIterCalls)
  \/ IteratorDerefCall(MaxTreeIterCalls)
  \/ IteratorDestroyCall(MaxTreeIterCalls)

SpecTreeIter == Init /\ [][NextTreeIter]_vars

(* ----------------------- the tree on a busy pool ----------------------- *)
\* the frame of a page of the tree that is not pinned is taken as victim
TreeEvictCall(page_id, bound) ==
  /\ TreeStep(bound)
  /\ IsTreePage(tree, page_id) /\ tree.pin[page_id] = 0
  /\ tree' = Tree_Evict(tree, page_id)
  /\ last' = TreeCall("Victim", page_id, 0, TRUE)
  /\ UNCHANGED stored

\* Inserts of keys that are not stored and GetValue, on a pool that evicts
\* pages of the tree
NextTreeEvict ==
  \/ \E key \in TreeKeys :
       /\ stored[key] = 0
       /\ TreeInsertCall(key, key + 1, FALSE, MaxTreeEvictCalls)
  \/ \E key \in TreeKeys : TreeGetValueCall(key, FALSE, MaxTreeEvictCalls)
  \/ \E page_id \in TreePageIds : TreeEvictCall(page_id, MaxTreeEvictCalls)

SpecTreeEvict == Init /\ [][NextTreeEvict]_vars

(* ---------------------------- properties ------------------------------ *)
RECURSIVE Pow2(_)
Pow2(n) == IF n = 0 THEN 1 ELSE 2 * Pow2(n - 1)

\* the slots in use, over all the buckets of the directory, that hold key
Entries(h, key) ==
  {<<b, j>> \in Range(h.buckets_table) \X (1..h.bucket_capacity) :
     h.heap[b].exists[j] /\ h.heap[b].items[j].first = key}

Resident(s, page_id) == FrameOf(s, page_id) # nullptr

PinnedFrames(s) == {f \in DOMAIN s.pages : s.pages[f].pin_count > 0}

RECURSIVE SumPinCount(_, _)
SumPinCount(s, n) == IF n = 0 THEN 0 ELSE s.pages[n].pin_count + SumPinCount(s, n - 1)

RECURSIVE SumOutstanding(_)
SumOutstanding(S) ==
  IF S = {} THEN 0
  ELSE LET p == MinOf(S) IN outstanding[p] + SumOutstanding(S \ {p})

\* C1: the frame FetchPage or NewPage takes from the free list or from the
\* replacer has pin count 0 at that moment, and no frame with pin count > 0 is
\* given another page id.
C1_VictimNotPinned ==
  [][/\ (last'.op \in {"FetchPage", "NewPage"} /\ last'.src \in {"free_list", "replacer"})
          => bpm.pages[last'.frame].pin_count = 0
     /\ \A f \in Frames :
          bpm.pages[f].pin_count > 0 => bpm'.pages[f].page_id = bpm.pages[f].page_id]_vars

\* C2: between calls the replacer, the free list and the frames with pin
\* count > 0 are pairwise disjoint and together are all the frames.
C2_Partition ==
  LET R == Range(bpm.replacer)
      F == Range(bpm.free_list)
      P == PinnedFrames(bpm)
  IN /\ R \cap F = {} /\ R \cap P = {} /\ F \cap P = {}
     /\ R \cup F \cup P = Frames

\* C3: the pin counts of all frames add up to the outstanding pins (successful
\* FetchPage/NewPage minus successful UnpinPage), and the pin count of every
\* resident page is the number of its own outstanding pins.
C3_PinsAreOutstanding ==
  /\ SumPinCount(bpm, PoolSize) = SumOutstanding(PageIds)
  /\ \A p \in PageIds :
       Resident(bpm, p) => bpm.pages[FrameOf(bpm, p)].pin_count = outstanding[p]

\* C4: a successful UnpinPage(id, is_dirty) leaves the frame's dirty flag at
\* (old dirty flag OR is_dirty).
C4_DirtyIsSticky ==
  [][(last'.op = "UnpinPage" /\ last'.ret)
       => bpm'.pages[last'.frame].is_dirty
            = (bpm.pages[last'.frame].is_dirty \/ last'.is_dirty)]_vars

\* C5: a page that was unpinned with is_dirty = true and not modified since
\* comes back from disk, when FetchPage reads it again after an eviction, with
\* the contents it had at that unpin.
C5_NoLostUpdate ==
  (/\ last.op = "FetchPage" /\ last.ret /\ last.src # "page_table"
   /\ committed[last.page_id] # NoData)
    => bpm.pages[last.frame].data = committed[last.page_id]

\* C6: after a successful DeletePage(id) of a resident page with pin count 0,
\* id is not in the page table, its frame has page_id INVALID, pin count 0 and
\* dirty false, the frame is in the free list and it is not in the replacer.
C6_DeleteResetsFrame ==
  [][(/\ last'.op = "DeletePage" /\ last'.ret
      /\ Resident(bpm, last'.page_id)
      /\ bpm.pages[FrameOf(bpm, last'.page_id)].pin_count = 0)
       => LET f == FrameOf(bpm, last'.page_id) IN
          /\ ~Hash_Find(bpm'.page_table, last'.page_id).found
          /\ bpm'.pages[f].page_id = INVALID_PAGE_ID
          /\ bpm'.pages[f].pin_count = 0
          /\ ~bpm'.pages[f].is_dirty
          /\ f \in Range(bpm'.free_list)
          /\ f \notin Range(bpm'.replacer)]_vars

\* C7: DeletePage(id) returns false only when id is resident with pin count > 0;
\* for an id that is not resident it hands id to DeallocatePage and returns true.
C7_DeleteFailsOnlyWhenPinned ==
  [][last'.op = "DeletePage"
       => LET id     == last'.page_id
              pinned == Resident(bpm, id) /\ bpm.pages[FrameOf(bpm, id)].pin_count > 0
          IN /\ ~last'.ret => pinned
             /\ ~Resident(bpm, id) => (last'.ret /\ id \in last'.deallocated)]_vars

\* C8: DeletePage(id) of a resident page with pin count > 0 returns false and
\* changes nothing: page table, frames (metadata and contents), free list,
\* replacer and disk are as before and DeallocatePage is not called.
C8_PinnedDeleteChangesNothing ==
  [][(/\ last'.op = "DeletePage"
      /\ Resident(bpm, last'.page_id)
      /\ bpm.pages[FrameOf(bpm, last'.page_id)].pin_count > 0)
       => /\ ~last'.ret
          /\ bpm' = bpm
          /\ last'.deallocated = {}]_vars

\* a DeletePage of a resident, pinned page has just returned
C8_Witness ==
  /\ last.op = "DeletePage"
  /\ ~last.ret
  /\ Resident(bpm, last.page_id)
  /\ bpm.pages[FrameOf(bpm, last.page_id)].pin_count > 0
  /\ bpm.pages[FrameOf(bpm, last.page_id)].data # 0

\* C9: UnpinPage(id, is_dirty) returns false when id is not resident or its pin
\* count is 0, and then pin counts, dirty flags, replacer and free list are as
\* before; otherwise it returns true, the pin count goes down by exactly one,
\* and the frame is put at the tail of the replacer (once) exactly when the pin
\* count reaches 0.
C9_UnpinContract ==
  [][last'.op = "UnpinPage"
       => LET id == last'.page_id
              f  == FrameOf(bpm, id)
          IN IF ~Resident(bpm, id) \/ bpm.pages[f].pin_count = 0
             THEN /\ ~last'.ret
                  /\ bpm'.pages = bpm.pages
                  /\ bpm'.replacer = bpm.replacer
                  /\ bpm'.free_list = bpm.free_list
             ELSE /\ last'.ret
                  /\ bpm'.pages[f].pin_count = bpm.pages[f].pin_count - 1
                  /\ \A g \in Frames \ {f} : bpm'.pages[g] = bpm.pages[g]
                  /\ bpm'.free_list = bpm.free_list
                  /\ IF bpm'.pages[f].pin_count = 0
                     THEN /\ bpm'.replacer # <<>>
                          /\ bpm'.replacer[Len(bpm'.replacer)] = f
                          /\ SelectSeq(bpm'.replacer, LAMBDA g : g # f)
                               = SelectSeq(bpm.replacer, LAMBDA g : g # f)
                          /\ Len(SelectSeq(bpm'.replacer, LAMBDA g : g = f)) = 1
                     ELSE bpm'.replacer = bpm.replacer]_vars

\* an UnpinPage has just taken a pin count from 1 to 0 and put the frame in the
\* replacer
C9_Witness ==
  /\ last.op = "UnpinPage"
  /\ last.ret
  /\ bpm.pages[last.frame].pin_count = 0
  /\ last.frame \in Range(bpm.replacer)

\* C10: when FetchPage or NewPage takes a frame from the replacer, the page
\* evicted is, among the pages with pin count 0, the one whose pin count
\* dropped to 0 least recently.
C10_EvictsLeastRecentlyUnpinned ==
  [][(last'.op \in {"FetchPage", "NewPage"} /\ last'.src = "replacer")
       => (unpinned # <<>> /\ last'.frame = Head(unpinned))]_vars

\* C11: a page flushed by a successful FlushPage and not modified since comes
\* back, when FetchPage reads it from disk after an eviction, with the contents
\* it had at the flush; FlushPage of an id that is not resident returns false
\* and leaves the disk (and everything else) as it was.
C11_FlushRoundTrip ==
  [][/\ (/\ last'.op = "FetchPage" /\ last'.ret /\ last'.src # "page_table"
         /\ flushed'[last'.page_id] # NoData)
          => bpm'.pages[last'.frame].data = flushed'[last'.page_id]
     /\ (last'.op = "FlushPage" /\ ~Resident(bpm, last'.page_id))
          => (~last'.ret /\ bpm' = bpm)]_vars

\* a FetchPage has just read back from disk a page that was flushed with
\* contents other than zeroes and evicted
C11_Witness ==
  /\ last.op = "FetchPage" /\ last.ret /\ last.src = "replacer"
  /\ flushed[last.page_id] \in Data \ {0}
  /\ bpm.pages[last.frame].data = flushed[last.page_id]

\* C12: calls of the entry points made by several threads run one at a time:
\* at most one thread is inside an entry point, and whenever no thread is inside
\* one the pool (page table, free list, replacer, frames, disk) is the pool that
\* running the same calls one after the other, in the order in which they took
\* the latch, produces.
C12_Serialized ==
  /\ Cardinality({t \in Threads : thread[t].pc # "idle"}) <= 1
  /\ (\A t \in Threads : thread[t].pc = "idle") => bpm = serial

\* the threads have completed three calls or more, the second NewPage among
\* them, which found the free list empty, and no thread is inside a call
C12_Witness ==
  /\ \A t \in Threads : thread[t].pc = "idle"
  /\ calls >= 3
  /\ bpm.next_page_id = 2
  /\ bpm.replacer = <<>> /\ bpm.free_list = <<>>
  /\ bpm = serial

\* C13: the replacer never holds a value twice, and Insert(v) of a value that is
\* present leaves Size() as it was, puts v at the tail and leaves the other
\* elements in the order they had.
C13_InsertKeepsOneCopy ==
  [][/\ Cardinality(Range(list_')) = Len(list_')
     /\ (last'.op = "Insert" /\ last'.value \in Range(list_))
          => /\ LRU_Size(list_') = LRU_Size(list_)
             /\ list_'[Len(list_')] = last'.value
             /\ Without(list_', last'.value) = Without(list_, last'.value)]_vars

\* an Insert has just moved a value that was present, and not at the tail, to
\* the tail
C13_Witness ==
  /\ last.op = "Insert" /\ last.found
  /\ Len(list_) >= 2
  /\ list_[Len(list_)] = last.value
  /\ last.value < list_[1]

\* C14: Victim on a replacer that is not empty takes out and returns the element
\* whose most recent Insert is the oldest among the elements present, and
\* Size() goes down by one; on an empty replacer it reports empty and leaves
\* the replacer as it was.
C14_VictimIsOldest ==
  [][last'.op = "Victim"
       => IF list_ # <<>>
          THEN /\ last'.ret
               /\ recency # <<>> /\ last'.value = Head(recency)
               /\ LRU_Size(list_') = LRU_Size(list_) - 1
               /\ Range(list_') = Range(list_) \ {last'.value}
               /\ list_' = Without(list_, last'.value)
          ELSE ~last'.ret /\ list_' = list_]_vars

\* a Victim has just taken out a value that was inserted again after another
\* value, which is now the head
C14_Witness ==
  /\ last.op = "Victim" /\ last.ret
  /\ list_ # <<>>
  /\ last.value > Head(list_)
  /\ calls >= 4

\* C15: after every Insert, two directory slots reference the same bucket if
\* and only if they agree on their low local_depth bits, local_depth being the
\* local depth of that bucket.
C15_SlotsShareByLowBits ==
  ~hash.overflow
    => \A i, j \in 0..(Len(hash.buckets_table) - 1) :
         (hash.buckets_table[i + 1] = hash.buckets_table[j + 1])
           <=> (i % Pow2(EntryAt(hash, i).local_depth)
                  = j % Pow2(EntryAt(hash, i).local_depth))

\* C16: with Insert called for keys that are not in the table only, Find(k)
\* finds v exactly when v is the value k was inserted with and k was not removed
\* since.
C16_BehavesAsMap ==
  \A k \in Keys :
    /\ Hash_Find(hash, k).found <=> model[k] # 0
    /\ Hash_Find(hash, k).found => Hash_Find(hash, k).value = model[k]

\* C17: Remove(k) returns true exactly when k is in the table before the call,
\* and when k is not in the table it leaves the table, the occupancy counts of
\* the buckets included, as it was.
C17_RemoveReportsPresence ==
  [][last'.op = "Remove"
       => /\ last'.ret <=> Hash_Find(hash, last'.key).found
          /\ ~Hash_Find(hash, last'.key).found => hash' = hash]_vars

\* C18: Insert(k, v2) of a key that is in the table returns, and afterwards
\* Find(k) finds v2, the table holds one entry for k, and one Remove(k) makes
\* Find(k) report that k is absent.
C18_InsertOverwrites ==
  [][(last'.op = "Insert" /\ Hash_Find(hash, last'.key).found)
       => /\ last'.ret
          /\ Hash_Find(hash', last'.key) = [found |-> TRUE, value |-> last'.value]
          /\ Cardinality(Entries(hash', last'.key)) = 1
          /\ ~Hash_Find(Hash_Remove(hash', last'.key).hash, last'.key).found]_vars

\* C19: every Insert returns: the calls of Insert nested in one another through
\* splits and reinsertion never go deeper than MaxRecursion, which is more than
\* the number of bits of the keys.
C19_InsertTerminates == ~hash.overflow

\* C20: with threads calling Insert, Find and Remove on distinct keys, a Find of
\* a key whose Insert has returned and that was not removed finds the key,
\* whatever the other threads are doing, and when no thread is in a call every
\* such key is found.
C20_FindSeesCompletedInserts ==
  [][/\ \A t \in Threads :
          (/\ hthread[t].pc = "lookup" /\ hthread[t].op = "Find"
           /\ hthread'[t].pc = "idle"
           /\ model[hthread[t].key] # 0)
            => last'.ret
     /\ (\A t \in Threads : hthread'[t].pc = "idle")
          => \A k \in Keys : model'[k] # 0 => Hash_Find(hash', k).found]_vars

\* C21: between the calls of one thread the directory has 2^global_depth slots,
\* the new table has global depth 0 and one bucket, and the local depth of the
\* bucket of every slot is at most the global depth.
C21_DirectoryShape ==
  /\ Len(hash.buckets_table) = Pow2(hash.global_depth)
  /\ \A i \in 0..(Len(hash.buckets_table) - 1) :
       EntryAt(hash, i).local_depth <= hash.global_depth
  /\ calls = 0 => (hash.global_depth = 0 /\ hash.num_buckets = 1
                    /\ Cardinality(Range(hash.buckets_table)) = 1)

\* an Insert has split a bucket without doubling the directory, which had been
\* doubled before
C21_Witness ==
  /\ last.op = "Insert" /\ last.ret
  /\ hash.global_depth >= 2
  /\ hash.num_buckets > hash.global_depth + 1

\* C22: global_depth and the length of the directory never go down; they change
\* only in the doubling step of an Insert, which adds 1 to global_depth and
\* doubles the directory, and only when the bucket that overflows is full and
\* has local depth equal to global_depth at that moment. Find and Remove change
\* neither.
C22_DepthGrowsOnlyByDoubling ==
  [][/\ hash'.global_depth >= hash.global_depth
     /\ Len(hash'.buckets_table) >= Len(hash.buckets_table)
     /\ (\/ hash'.global_depth # hash.global_depth
         \/ Len(hash'.buckets_table) # Len(hash.buckets_table))
          => \E t \in Threads :
               /\ hthread[t].op = "Insert"
               /\ hthread[t].pc = "grow" /\ hthread'[t].pc = "split"
               /\ Bucket_Full(EntryAt(hash, hthread[t].index))
               /\ EntryAt(hash, hthread[t].index).local_depth = hash.global_depth
               /\ hash'.global_depth = hash.global_depth + 1
               /\ Len(hash'.buckets_table) = 2 * Len(hash.buckets_table)]_vars

\* an Insert has passed the doubling step without doubling: its bucket is full
\* and has a local depth below the global depth
C22_Witness ==
  /\ hthread[1].op = "Insert" /\ hthread[1].pc = "split"
  /\ Bucket_Full(EntryAt(hash, hthread[1].index))
  /\ EntryAt(hash, hthread[1].index).local_depth < hash.global_depth

(* ------------------------ properties of the tree ----------------------- *)
StoredKeys == {k \in TreeKeys : stored[k] # 0}

\* what GetValue(key) yields on the tree t: the value, 0 when it returns false
ValueOf(t, key) ==
  LET r == GetValue(t, key, FALSE) IN IF r.ret /\ ~r.t.undefined THEN r.value ELSE 0

\* the pages under the page page_id, with it, by the children of the internal
\* pages; fuel bounds a walk that runs in a circle
RECURSIVE NodesFrom(_, _, _)
NodesFrom(t, page_id, fuel) ==
  IF fuel = 0 \/ ~IsTreePage(t, page_id) THEN {}
  ELSE LET n == t.pages[page_id] IN
       IF IsLeafPage(n) THEN {page_id}
       ELSE {page_id} \cup
            UNION {NodesFrom(t, n.array[i].second, fuel - 1) : i \in 0..(n.size_ - 1)}

TreeNodes(t) == IF IsEmpty(t) THEN {} ELSE NodesFrom(t, t.root_page_id_, MaxTreePages)

\* the keys stored in the leaves under the page page_id
SubtreeKeys(t, page_id) ==
  UNION {{t.pages[l].array[i].first : i \in 0..(t.pages[l].size_ - 1)} :
           l \in {p \in NodesFrom(t, page_id, MaxTreePages) : IsLeafPage(t.pages[p])}}

\* the step is a call of op that returned
Returned(op) == calls' = calls + 1 /\ last'.op = op /\ ~tree'.undefined

\* C23: after every Insert or Remove that returned, the keys the iterator
\* yields from Begin() to the end, leaf by leaf along next_page_id, are the keys
\* stored (inserted and not removed since), each once, in ascending order.
C23_LeafChainYieldsStoredKeys ==
  (~tree.undefined /\ ~IsEmpty(tree)) => IteratorKeys(tree) = SortedSeq(StoredKeys)

\* C24: GetValue(k) yields the value of the Insert(k, v) that returned true, also
\* after later Inserts of other keys and the splits they make; an Insert of a
\* key that is stored returns false and changes neither that value nor the set
\* of keys found.
C24_InsertThenGetValue ==
  [][Returned("Insert") =>
       /\ \A k \in TreeKeys : stored'[k] # 0 => ValueOf(tree', k) = stored'[k]
       /\ stored[last'.key] # 0 =>
            /\ ~last'.ret
            /\ \A k \in TreeKeys : ValueOf(tree', k) = ValueOf(tree, k)]_vars

\* C25: after Remove(k) of a stored key GetValue(k) yields nothing, a Remove of a
\* key that is not stored changes the result of no GetValue, and a Remove leaves
\* the result of GetValue of every other key as it was.
C25_RemoveThenGetValue ==
  [][Returned("Remove") =>
       /\ ValueOf(tree', last'.key) = 0
       /\ \A k \in TreeKeys \ {last'.key} : ValueOf(tree', k) = ValueOf(tree, k)]_vars

\* C26: an Insert that returned leaves the pin count of every page as it was
\* before the call.
C26_InsertLeavesPinCounts ==
  [][Returned("Insert") => tree'.pin = tree.pin]_vars

\* C27: a Remove that returned leaves the pin count of every page as it was
\* before the call.
C27_RemoveLeavesPinCounts ==
  [][Returned("Remove") => tree'.pin = tree.pin]_vars

\* C28: between the calls every node of the tree has 0 <= size <= max_size, and
\* every node but the root has size >= ceil(max_size / 2).
C28_NodeSizesWithinBounds ==
  ~tree.undefined =>
    \A p \in TreeNodes(tree) :
      LET n == tree.pages[p] IN
        /\ 0 <= n.size_ /\ n.size_ <= n.max_size_
        /\ p # tree.root_page_id_ => 2 * n.size_ >= n.max_size_

\* C29: between the calls, in every internal node the keys under the child i-1
\* are less than key i and the keys under the child i are at least key i, for
\* every i from 1 to size-1.
C29_KeysSeparateSubtrees ==
  ~tree.undefined =>
    \A p \in TreeNodes(tree) :
      LET n == tree.pages[p] IN
        ~IsLeafPage(n) =>
          \A i \in 1..(n.size_ - 1) :
            /\ \A k \in SubtreeKeys(tree, n.array[i - 1].second) : k < n.array[i].first
            /\ \A k \in SubtreeKeys(tree, n.array[i].second) : k >= n.array[i].first

\* the pages that hold a leaf or an internal node and were not deleted
AllocatedNodes(t) == {p \in TreePageIds : IsTreePage(t, p)}

\* C30: between the calls every node but the root has a parent_id that names an
\* internal node with the node as a child exactly once, every child of an
\* internal node names a node with that internal node as parent_id, and every
\* allocated leaf or internal node is reached from the root.
C30_ParentsAndChildrenAgree ==
  ~tree.undefined =>
    /\ \A p \in TreeNodes(tree) \ {tree.root_page_id_} :
         LET parent == tree.pages[p].parent_page_id_ IN
           /\ IsTreePage(tree, parent)
           /\ ~IsLeafPage(tree.pages[parent])
           /\ Cardinality({i \in 0..(tree.pages[parent].size_ - 1) :
                             tree.pages[parent].array[i].second = p}) = 1
    /\ \A p \in TreeNodes(tree) :
         ~IsLeafPage(tree.pages[p]) =>
           \A i \in 0..(tree.pages[p].size_ - 1) :
             LET child == tree.pages[p].array[i].second IN
               IsTreePage(tree, child) /\ tree.pages[child].parent_page_id_ = p
    /\ AllocatedNodes(tree) \subseteq TreeNodes(tree)

\* C31: between the calls the tree is empty exactly when no key is stored; the
\* root of a tree that is not empty is a node with parent_id INVALID_PAGE_ID,
\* a leaf or an internal page of size 2 at least, and the record of the index
\* in the header page is root_page_id.
C31_RootAndHeaderAgree ==
  ~tree.undefined =>
    /\ IsEmpty(tree) <=> StoredKeys = {}
    /\ ~IsEmpty(tree) =>
         /\ IsTreePage(tree, tree.root_page_id_)
         /\ tree.pages[tree.root_page_id_].parent_page_id_ = INVALID_PAGE_ID
         /\ \/ IsLeafPage(tree.pages[tree.root_page_id_])
            \/ tree.pages[tree.root_page_id_].size_ >= 2
         /\ tree.header.present /\ tree.header.root_id = tree.root_page_id_

\* C32: when an iterator made by Begin() or Begin(key) is destroyed, after any
\* number of steps, every page has the pin count it had before the iterator
\* was made.
C32_IteratorLeavesPinCounts ==
  [][Returned("~IndexIterator") => tree'.pin = began.pin]_vars

\* C33: on a tree that stores a key >= key, the iterator of Begin(key) yields
\* the smallest stored key >= key when it is dereferenced.
C33_BeginKeyAtFirstNotLess ==
  [][(/\ Returned("operator*")
      /\ began.key # -1 /\ ~began.advanced
      /\ \E k \in StoredKeys : k >= began.key)
       => /\ last'.ret
          /\ last'.key \in StoredKeys /\ last'.key >= began.key
          /\ \A k \in StoredKeys : k >= began.key => last'.key <= k]_vars

\* the places (page, index) of the internal pages of t that hold the child
PlacesOf(t, child) ==
  {<<p, i>> \in AllocatedNodes(t) \X Slots :
     /\ ~IsLeafPage(t.pages[p])
     /\ i < t.pages[p].size_
     /\ t.pages[p].array[i].second = child}

\* C34: when an Insert splits a leaf whose parent is full, so that
\* InsertIntoParent splits the parent, the new leaf is afterwards the child of
\* exactly one internal page, at the index right after the old leaf, under the
\* promoted key, and its parent_id names that page.
C34_SplitPlacesNewNode ==
  [][LET old == FindLeafPage(tree, last'.key, FALSE).leaf
         new == tree.next_page_id
         parent == tree.pages[old].parent_page_id_
     IN  (/\ Returned("Insert") /\ last'.ret /\ ~IsEmpty(tree)
          /\ tree.pages[old].size_ = tree.pages[old].max_size_
          /\ IsTreePage(tree, parent)
          /\ tree.pages[parent].size_ = tree.pages[parent].max_size_)
           => /\ Cardinality(PlacesOf(tree', new)) = 1
              /\ \A pl \in PlacesOf(tree', new) :
                   /\ pl[2] >= 1
                   /\ tree'.pages[pl[1]].array[pl[2] - 1].second = old
                   /\ tree'.pages[pl[1]].array[pl[2]].first =
                        tree'.pages[new].array[0].first
                   /\ tree'.pages[new].parent_page_id_ = pl[1]]_vars

\* the entries of the node page_id in the order of its array, the key of the
\* first one, which no lookup reads, taken as key
EntriesOf(t, page_id, key) ==
  [i \in 1..t.pages[page_id].size_ |->
     IF i = 1 THEN Entry(key, t.pages[page_id].array[0].second)
     ELSE t.pages[page_id].array[i - 1]]

\* the internal pages (left, right, index) that are neighbours under one
\* internal page of the tree t, right being its child at index
InternalNeighbours(t) ==
  {pl \in TreeNodes(t) \X TreeNodes(t) \X Slots :
     /\ ~IsLeafPage(t.pages[pl[1]]) /\ ~IsLeafPage(t.pages[pl[2]])
     /\ \E p \in TreeNodes(t) :
          /\ ~IsLeafPage(t.pages[p])
          /\ 1 <= pl[3] /\ pl[3] < t.pages[p].size_
          /\ t.pages[p].array[pl[3] - 1].second = pl[1]
          /\ t.pages[p].array[pl[3]].second = pl[2]
          /\ t.pages[pl[2]].parent_page_id_ = p}

\* C35: when a Remove merges an internal node into its left neighbour, the
\* left node afterwards holds its own entries followed by those of the right
\* node in their order, the first of them under the separator of the parent
\* (the entries the two nodes held before the call, less the one entry of the
\* leaf the call merged away), its size is the number of these entries, and
\* every child in it has the left node as parent_id.
C35_CoalesceAppendsEntries ==
  [][Returned("Remove") =>
       \A pl \in InternalNeighbours(tree) :
         LET left == pl[1]
             right == pl[2]
             parent == tree.pages[right].parent_page_id_
             all == EntriesOf(tree, left, 0) \o
                    EntriesOf(tree, right, tree.pages[parent].array[pl[3]].first)
         IN  (right \notin TreeNodes(tree') /\ left \in TreeNodes(tree'))
               => /\ \E j \in 1..Len(all) :
                       EntriesOf(tree', left, 0) = RemoveAt(all, j)
                  /\ \A i \in 0..(tree'.pages[left].size_ - 1) :
                       LET child == tree'.pages[left].array[i].second
                       IN  /\ IsTreePage(tree', child)
                           /\ tree'.pages[child].parent_page_id_ = left]_vars

\* C36: every node that a Remove takes out of the tree, by a coalesce or as
\* the old root, has its page deleted: DeletePage succeeded for it, so the
\* page is no longer in the pool and the disk manager has deallocated it.
C36_RemovedNodesAreDeleted ==
  [][Returned("Remove") =>
       \A p \in TreeNodes(tree) \ TreeNodes(tree') :
         p \in tree'.deleted /\ tree'.pin[p] = 0]_vars

\* C37: when a Remove leaves the internal root with one child, root_page_id is
\* afterwards the page id of that child, the parent_id of the child is
\* INVALID_PAGE_ID, the record of the header page names the child and
\* GetValue finds every stored key; when a Remove empties the root leaf,
\* root_page_id is INVALID_PAGE_ID afterwards and IsEmpty() is true.
C37_RootCollapses ==
  [][(Returned("Remove") /\ ~IsEmpty(tree)) =>
       LET old == tree.root_page_id_
           n == tree'.pages[old]
           child == n.array[0].second
       IN  /\ (n.page_type_ = "INTERNAL_PAGE" /\ n.size_ = 1) =>
                /\ tree'.root_page_id_ = child
                /\ IsTreePage(tree', child)
                /\ tree'.pages[child].parent_page_id_ = INVALID_PAGE_ID
                /\ tree'.header.present /\ tree'.header.root_id = child
                /\ \A k \in StoredKeys' : ValueOf(tree', k) = stored'[k]
           /\ (n.page_type_ = "LEAF_PAGE" /\ n.size_ = 0) =>
                tree'.root_page_id_ = INVALID_PAGE_ID /\ IsEmpty(tree')]_vars

\* C38: when an Insert or a GetValue has returned, every page of the tree
\* whose bytes differ from those on the disk is dirty, and the eviction of a
\* page of the tree changes the result of no GetValue: the keys stay found.
C38_ModifiedPagesAreDirty ==
  [][/\ (Returned("Insert") \/ Returned("GetValue")) =>
          \A p \in AllocatedNodes(tree') :
            tree'.pages[p] # tree'.disk[p] => tree'.dirty[p]
     /\ Returned("Victim") =>
          \A k \in TreeKeys : ValueOf(tree', k) = ValueOf(tree, k)]_vars

\* C39: when an internal page takes the last entry of its left sibling,
\* CopyFirstFrom unpins the parent it fetched, by the parent's own id, so that
\* no page's pin count is changed by the call.
C39_CopyFirstFromUnpinsParent ==
  [][(Returned("Remove") /\ tree'.copy_first_from.called) =>
       /\ tree'.copy_first_from.unpinned = tree'.copy_first_from.parent
       /\ tree'.copy_first_from.changed = {}]_vars

\* the leaf a call for key reaches in the tree t
LeafOf(t, key) == t.pages[FindLeafPage(t, key, FALSE).leaf]

\* C40: the leaf's Lookup, Insert and RemoveAndDeleteRecord read the array
\* only at an index in [0, size): in every call of GetValue, Insert or Remove
\* that reaches a leaf holding a pair, for every key, a key greater than all
\* keys of the leaf included, the index at which the key is compared is one of
\* the leaf's pairs.
C40_LeafReadsInsideArray ==
  [][(/\ calls' = calls + 1
      /\ last'.op \in {"GetValue", "Insert", "Remove"}
      /\ ~IsEmpty(tree)
      /\ ~FindLeafPage(tree, last'.key, FALSE).t.undefined
      /\ LeafOf(tree, last'.key).size_ > 0) =>
       Leaf_KeyIndex(LeafOf(tree, last'.key), last'.key)
         \in 0..(LeafOf(tree, last'.key).size_ - 1)]_vars

====
